---- MODULE Spec2Model ----
(***************************************************************************)
(* Model of landice/mesh_tools_li/conversion_exodus_init_to_mpasli_mesh.py *)
(* The script transplants an Exodus field onto an MPAS mesh (lines         *)
(* 118-181), builds a keep-mask (184-205), flood-fills the masked-out      *)
(* cells (215-256) and smooths them (260-301).                             *)
(* Spec runs the script on 2-D fields from line 111 on; LayerSpec runs the *)
(* ordering dispatch and the layer loop (92-181) on layered fields.        *)
(*                                                                         *)
(* Arrays are functions over 0..n-1, indexed as numpy indexes them (a      *)
(* negative index counts from the end).  Field values, source coordinates   *)
(* and distances are float64 numbers <<sign, mantissa, exponent>>, the      *)
(* mantissa a sequence of 15-bit limbs, lowest first (see FRound).          *)
(***************************************************************************)
EXTENDS Integers, Sequences, FiniteSets, TLC

VARIABLES
    ordering,            \* the Exodus global variable 'ordering'
    stride,              \* the Exodus global variable 'stride'
    x_exo, y_exo,        \* source node coordinates, every layer (metres)
    data_exo,            \* source node values, every layer
    shape,               \* np.shape(dataset.variables[options.var_name])
    nVert,               \* loop index of the layer loop
    var_name,            \* options.var_name
    conversion_method,   \* options.conversion_method
    mask_scheme,         \* options.mask_scheme
    extrapolation,       \* options.extrapolation
    smooth_iter_num,     \* int(options.smooth_iter_num)
    nCells,              \* len(dataset.dimensions['nCells'])
    x, y,                \* xCell, yCell
    cellsOnCell,         \* 1-based neighbour ids, 0 = no neighbour
    nEdgesOnCell,        \* degree of each cell
    x_exo_layer,         \* source sample x coordinates (metres)
    y_exo_layer,         \* source sample y coordinates (metres)
    data_exo_layer,      \* source sample values
    id_file,             \* text lines of options.id_file
    dataset0,            \* the target file's fields as opened (history)
    dataset,             \* dataset.variables[name][0,:]
    usefulCellID_array,  \* 1-based target cell id of each sample
    id_map_file,         \* text lines of exodus_to_mpas_id_map.txt
    i,                   \* loop index of the coordinate search
    keepCellMask,
    keepCellMaskNew,
    keepCellMaskOld,
    searchCells,         \* cells the running for-loop visits
    pos,                 \* position of that for-loop in searchCells
    pass_num,            \* completed extrapolation passes (history, saturating)
    iter_num,
    written,             \* cells written by each stage (history)
    pc,                  \* position of the script
    err                  \* how the run was aborted, "none" otherwise

vars == <<ordering, stride, x_exo, y_exo, data_exo, shape, nVert, var_name, conversion_method, mask_scheme, extrapolation,
          smooth_iter_num, nCells, x, y, cellsOnCell, nEdgesOnCell,
          x_exo_layer, y_exo_layer, data_exo_layer, id_file, dataset0,
          dataset, usefulCellID_array, id_map_file, i, keepCellMask,
          keepCellMaskNew, keepCellMaskOld, searchCells, pos, pass_num,
          iter_num, written, pc, err>>

config == <<ordering, stride, x_exo, y_exo, data_exo, shape, nVert, var_name, conversion_method, mask_scheme, extrapolation,
            smooth_iter_num, nCells, x, y, cellsOnCell, nEdgesOnCell,
            x_exo_layer, y_exo_layer, data_exo_layer, id_file, dataset0>>

-----------------------------------------------------------------------------
(* Bounds of the model. *)

\* largest int(options.smooth_iter_num) explored
MaxIter == 2
\* source sample values are 0..MaxData
MaxData == 1
\* largest number of source samples (nodes of one Exodus layer)
MaxSamples == 2
\* largest number of vertical layers of a layered field
MaxLayers == 2

-----------------------------------------------------------------------------
(* numpy arrays and arithmetic *)

Abs(a) == IF a < 0 THEN -a ELSE a

\* a tuple as a 0-based array
Arr(s) == [k \in 0..(Len(s) - 1) |-> s[k + 1]]

ALen(a) == Cardinality(DOMAIN a)

\* numpy's index: a negative index counts from the end of the axis
PyIndex(k, n) == IF k < 0 THEN k + n ELSE k

\* the elements of a finite set of integers in ascending order
RECURSIVE Ascending(_)
Ascending(S) ==
    IF S = {} THEN <<>>
    ELSE LET m == CHOOSE a \in S : \A b \in S : a <= b
         IN  <<m>> \o Ascending(S \ {m})

-----------------------------------------------------------------------------
(* Natural numbers of any size: little-endian sequences of 15-bit limbs,    *)
(* <<>> for 0, the last limb never 0.                                       *)

\* the base of a limb: two limbs multiply inside a 32-bit integer
B == 32768
LimbBits == 15

Limb(a, k) == IF k <= Len(a) THEN a[k] ELSE 0

RECURSIVE BTrim(_)
BTrim(a) ==
    IF Len(a) = 0 THEN <<>>
    ELSE IF a[Len(a)] # 0 THEN a
    ELSE BTrim(SubSeq(a, 1, Len(a) - 1))

RECURSIVE BFromNat(_)
BFromNat(n) == IF n = 0 THEN <<>> ELSE <<n % B>> \o BFromNat(n \div B)

\* -1, 0 or 1 as a < b, a = b or a > b: the highest limb that differs decides
BCmp(a, b) ==
    IF Len(a) # Len(b) THEN (IF Len(a) < Len(b) THEN -1 ELSE 1)
    ELSE IF \A k \in 1..Len(a) : a[k] = b[k] THEN 0
    ELSE LET t == CHOOSE k \in 1..Len(a) :
                      a[k] # b[k] /\ \A j \in (k + 1)..Len(a) : a[j] = b[j]
         IN  IF a[t] < b[t] THEN -1 ELSE 1

\* a + b: s are the column sums, each below 2B - 1; a carry enters limb k
\* when a column below k overflows and every column between passes it on
BAdd(a, b) ==
    LET s == <<>> \o [k \in 1..(IF Len(a) < Len(b) THEN Len(b) ELSE Len(a)) |->
                         Limb(a, k) + Limb(b, k)]
    IN  BTrim(<<>> \o [k \in 1..(Len(s) + 1) |->
            (Limb(s, k)
               + (IF \E j \in 1..(k - 1) :
                        s[j] >= B /\ \A l \in (j + 1)..(k - 1) : s[l] >= B - 1
                  THEN 1 ELSE 0)) % B])

\* a - b where a >= b: limb k lends when a limb below it falls short and
\* every limb between has nothing to spare
BSub(a, b) ==
    BTrim(<<>> \o [k \in 1..Len(a) |->
        (a[k] - Limb(b, k)
           - (IF \E j \in 1..(k - 1) :
                    a[j] < Limb(b, j) /\ \A l \in (j + 1)..(k - 1) : a[l] <= Limb(b, l)
              THEN 1 ELSE 0)) % B])

\* a * m for one limb m: the low halves of the products plus the high
\* halves one limb up
BMulSmall(a, m) ==
    BAdd(<<>> \o [k \in 1..Len(a) |-> (a[k] * m) % B],
         <<0>> \o [k \in 1..Len(a) |-> (a[k] * m) \div B])

BShiftLimbs(a, n) == IF Len(a) = 0 THEN <<>> ELSE [k \in 1..n |-> 0] \o a

\* a times the limbs of b from position k up
RECURSIVE BMulFrom(_, _, _)
BMulFrom(a, b, k) ==
    IF k > Len(b) THEN <<>>
    ELSE BAdd(BShiftLimbs(BMulSmall(a, b[k]), k - 1), BMulFrom(a, b, k + 1))

\* a * 2^n
BShl(a, n) == BShiftLimbs(BMulSmall(a, 2 ^ (n % LimbBits)), n \div LimbBits)

\* a \div 2^n
BShr(a, n) ==
    IF n \div LimbBits >= Len(a) THEN <<>>
    ELSE BTrim(<<>> \o [k \in 1..(Len(a) - (n \div LimbBits)) |->
            (a[k + (n \div LimbBits)] \div 2 ^ (n % LimbBits))
              + (Limb(a, k + (n \div LimbBits) + 1) % 2 ^ (n % LimbBits))
                  * 2 ^ (LimbBits - (n % LimbBits))])

\* the number of bits of a
BBits(a) ==
    IF Len(a) = 0 THEN 0
    ELSE LimbBits * (Len(a) - 1)
           + (CHOOSE n \in 1..LimbBits : 2 ^ (n - 1) <= a[Len(a)] /\ a[Len(a)] < 2 ^ n)

\* the number of zero bits below the lowest 1 bit of a > 0
BTrailingZeros(a) ==
    LET k == CHOOSE p \in 1..Len(a) : a[p] # 0 /\ \A j \in 1..(p - 1) : a[j] = 0
    IN  LimbBits * (k - 1)
          + (CHOOSE z \in 0..(LimbBits - 1) : a[k] % 2 ^ z = 0 /\ a[k] % 2 ^ (z + 1) # 0)

\* <<a \div m, a % m>> for one limb m: the limbs of a from position k down,
\* rem the remainder and quot the quotient so far
RECURSIVE BDivSmallFrom(_, _, _, _, _)
BDivSmallFrom(a, m, k, rem, quot) ==
    IF k = 0 THEN <<BTrim(quot), BFromNat(rem)>>
    ELSE BDivSmallFrom(a, m, k - 1, (rem * B + a[k]) % m,
                       <<(rem * B + a[k]) \div m>> \o quot)

\* the largest q with q * b <= r, from an estimate that is never too small
RECURSIVE BDigit(_, _, _)
BDigit(r, b, q) ==
    IF BCmp(BMulSmall(b, q), r) <= 0 THEN q ELSE BDigit(r, b, q - 1)

\* long division by b * 2^s, whose top limb has its top bit set: the limbs
\* of a from position k down, rem the remainder and quot the quotient so far;
\* the estimate of a digit is the top two limbs of r over the top limb of b
RECURSIVE BDivFrom(_, _, _, _, _, _)
BDivStep(a, b, s, k, r, quot) ==
    LET est == (Limb(r, Len(b) + 1) * B + Limb(r, Len(b))) \div b[Len(b)]
        q == BDigit(r, b, IF est < B THEN est ELSE B - 1)
    IN  IF BCmp(r, b) < 0 THEN BDivFrom(a, b, s, k - 1, r, <<0>> \o quot)
        ELSE BDivFrom(a, b, s, k - 1, BSub(r, BMulSmall(b, q)), <<q>> \o quot)

BDivFrom(a, b, s, k, rem, quot) ==
    IF k = 0 THEN <<BTrim(quot), BShr(rem, s)>>
    ELSE BDivStep(a, b, s, k, BTrim(<<Limb(a, k)>> \o rem), quot)

\* <<a \div b, a % b>> for b > 0; a long division shifts both by s until the
\* top bit of the top limb of b is set
BDivMod(a, b) ==
    IF Len(b) = 1 THEN BDivSmallFrom(a, b[1], Len(a), 0, <<>>)
    ELSE LET s == (LimbBits - (BBits(b) % LimbBits)) % LimbBits
         IN  BDivFrom(BShl(a, s), BShl(b, s), s, Len(a) + 1, <<>>, <<>>)

\* the integer part of the square root of n, between lo and hi
RECURSIVE SqrtBetween(_, _, _)
SqrtBetween(n, lo, hi) ==
    IF lo >= hi THEN lo
    ELSE IF ((lo + hi + 1) \div 2) * ((lo + hi + 1) \div 2) <= n
    THEN SqrtBetween(n, (lo + hi + 1) \div 2, hi)
    ELSE SqrtBetween(n, lo, (lo + hi + 1) \div 2 - 1)

\* Newton's iteration from a start above the root
RECURSIVE BSqrtFrom(_, _)
BSqrtNext(a, r, next) == IF BCmp(next, r) >= 0 THEN r ELSE BSqrtFrom(a, next)

BSqrtFrom(a, r) == BSqrtNext(a, r, BShr(BAdd(r, BDivMod(a, r)[1]), 1))

\* the integer part of the square root of a; the start is above the root of
\* the top 30 bits of a, 2j bits down
BSqrt(a) ==
    IF Len(a) = 0 THEN <<>>
    ELSE LET j == IF BBits(a) > 2 * LimbBits THEN (BBits(a) - 2 * LimbBits + 1) \div 2 ELSE 0
             top == BShr(a, 2 * j)
         IN  BSqrtFrom(a, BShl(BFromNat(SqrtBetween(Limb(top, 1) + Limb(top, 2) * B, 0, B - 1) + 1), j))

-----------------------------------------------------------------------------
(* float64 numbers: <<sign, mantissa, exponent>> stands for                 *)
(* sign * mantissa * 2^exponent, the mantissa odd and below 2^53, the       *)
(* number below 2^1024 and a multiple of 2^-1074.  The zeros are            *)
(* <<1, <<>>, 0>> and <<-1, <<>>, 0>> (-0.0), the infinities                *)
(* <<1, <<1>>, 1024>> and <<-1, <<1>>, 1024>>, and <<1, <<>>, 1>> is nan.   *)
(* Every operation rounds its exact result to the nearest float64, ties to  *)
(* the even mantissa, as IEEE 754 does: to the 53 bits of a normal number,  *)
(* to the multiples of 2^-1074 below 2^-1022, to an infinity from 2^1024.   *)

MantBits == 53

\* inf and -inf: what a result of 2^1024 or more rounds to
Infinity(s) == <<s, <<1>>, 1024>>

NaN == <<1, <<>>, 1>>

\* the float s * m * 2^e for m up to 2^53 and e from -1074
FCanon(s, m, e) ==
    IF Len(m) = 0 THEN <<s, <<>>, 0>>
    ELSE IF BBits(m) + e > 1024 THEN Infinity(s)
    ELSE LET z == BTrailingZeros(m) IN <<s, BShr(m, z), e + z>>

\* the float nearest to s * (m + f) * 2^e, where 0 < f < 1 if sticky and
\* f = 0 otherwise: q is m without the sh bits that do not fit (beyond 53
\* bits, or below 2^-1074), c compares those bits with one half
FRound(s, m, e, sticky) ==
    LET sh == IF BBits(m) - MantBits > (-1074) - e
              THEN BBits(m) - MantBits ELSE (-1074) - e
        q == BShr(m, sh)
        c == BCmp(BSub(m, BShl(q, sh)), BShl(<<1>>, sh - 1))
    IN  IF sh <= 0 THEN FCanon(s, m, e)
        ELSE FCanon(s, IF c > 0 \/ (c = 0 /\ (sticky \/ Limb(q, 1) % 2 = 1))
                       THEN BAdd(q, <<1>>) ELSE q, e + sh)

\* the float of an integer
Rat(n) == FRound(IF n < 0 THEN -1 ELSE 1, BFromNat(Abs(n)), 0, FALSE)

RIsZero(a) == a[2] = <<>> /\ a[3] = 0
RAbs(a) == <<1, a[2], a[3]>>

\* -1, 0 or 1 as |a| < |b|, |a| = |b| or |a| > |b|, neither being nan: the
\* position of the top bit decides, then the mantissas at one exponent
FCmpMag(a, b) ==
    LET ta == BBits(a[2]) + a[3]
        tb == BBits(b[2]) + b[3]
        e == IF a[3] < b[3] THEN a[3] ELSE b[3]
    IN  IF RIsZero(a) \/ RIsZero(b)
        THEN (IF RIsZero(a) /\ RIsZero(b) THEN 0 ELSE IF RIsZero(a) THEN -1 ELSE 1)
        ELSE IF ta # tb THEN (IF ta < tb THEN -1 ELSE 1)
        ELSE BCmp(BShl(a[2], a[3] - e), BShl(b[2], b[3] - e))

\* a < b: false with a nan, and between the two zeros
RLess(a, b) ==
    IF a = NaN \/ b = NaN THEN FALSE
    ELSE IF RIsZero(a) /\ RIsZero(b) THEN FALSE
    ELSE IF a[1] # b[1] THEN a[1] < b[1]
    ELSE a[1] * FCmpMag(a, b) < 0

\* a > 0.0
RPos(a) == a[1] = 1 /\ ~RIsZero(a) /\ a # NaN

\* sa * ma * 2^e + sb * mb * 2^e; an exact zero is +0.0
FAddMant(sa, ma, sb, mb, e) ==
    LET c == BCmp(ma, mb)
    IN  FRound(IF sa # sb /\ c = 0 THEN 1 ELSE IF c >= 0 THEN sa ELSE sb,
               IF sa = sb THEN BAdd(ma, mb)
               ELSE IF c >= 0 THEN BSub(ma, mb) ELSE BSub(mb, ma),
               e, FALSE)

\* a + b; inf + -inf is nan, -0.0 + -0.0 is -0.0; a number more than 55
\* bits below the other does not count
RAdd(a, b) ==
    LET ta == BBits(a[2]) + a[3]
        tb == BBits(b[2]) + b[3]
        e == IF a[3] < b[3] THEN a[3] ELSE b[3]
    IN  IF a = NaN \/ b = NaN THEN NaN
        ELSE IF RAbs(a) = Infinity(1)
        THEN (IF RAbs(b) = Infinity(1) /\ a[1] # b[1] THEN NaN ELSE a)
        ELSE IF RAbs(b) = Infinity(1) THEN b
        ELSE IF RIsZero(a) /\ RIsZero(b) THEN (IF a[1] = b[1] THEN a ELSE <<1, <<>>, 0>>)
        ELSE IF RIsZero(a) THEN b
        ELSE IF RIsZero(b) THEN a
        ELSE IF ta - tb > MantBits + 2 THEN a
        ELSE IF tb - ta > MantBits + 2 THEN b
        ELSE FAddMant(a[1], BShl(a[2], a[3] - e), b[1], BShl(b[2], b[3] - e), e)

RSub(a, b) == RAdd(a, IF b = NaN THEN b ELSE <<-b[1], b[2], b[3]>>)

\* a * b; inf * 0 is nan, and a zero has the sign of the product
RMul(a, b) ==
    IF a = NaN \/ b = NaN THEN NaN
    ELSE IF RAbs(a) = Infinity(1) \/ RAbs(b) = Infinity(1)
    THEN (IF RIsZero(a) \/ RIsZero(b) THEN NaN ELSE Infinity(a[1] * b[1]))
    ELSE IF RIsZero(a) \/ RIsZero(b) THEN <<a[1] * b[1], <<>>, 0>>
    ELSE FRound(a[1] * b[1], BMulFrom(a[2], b[2], 1), a[3] + b[3], FALSE)

FQuotient(s, qr, e) == FRound(s, qr[1], e, Len(qr[2]) > 0)

\* a / b as numpy divides: the quotient to 56 bits or more and what is left
\* over; 0/0 and inf/inf are nan, and a division by zero gives an infinity
RDiv(a, b) ==
    IF a = NaN \/ b = NaN THEN NaN
    ELSE IF RAbs(a) = Infinity(1)
    THEN (IF RAbs(b) = Infinity(1) THEN NaN ELSE Infinity(a[1] * b[1]))
    ELSE IF RAbs(b) = Infinity(1) THEN <<a[1] * b[1], <<>>, 0>>
    ELSE IF RIsZero(b) THEN (IF RIsZero(a) THEN NaN ELSE Infinity(a[1] * b[1]))
    ELSE IF RIsZero(a) THEN <<a[1] * b[1], <<>>, 0>>
    ELSE LET k == MantBits + 3 + BBits(b[2]) - BBits(a[2])
         IN  FQuotient(a[1] * b[1], BDivMod(BShl(a[2], k), b[2]), a[3] - b[3] - k)

FRootRound(m, r, e) == FRound(1, r, e, BMulFrom(r, r, 1) # m)

\* np.sqrt(a): nan below zero; the root of a square of at most two limbs
\* with an even exponent is exact; otherwise the root of the mantissa to 55
\* bits or more, from an even exponent
Sqrt(a) ==
    LET n == Limb(a[2], 1) + Limb(a[2], 2) * B
        r == IF a[3] % 2 = 0 /\ Len(a[2]) <= 2 THEN SqrtBetween(n, 0, B - 1) ELSE 0
        k == 2 * MantBits + 4 - BBits(a[2])
        m == BShl(a[2], k + ((a[3] - k) % 2))
    IN  IF a = NaN \/ RIsZero(a) \/ a = Infinity(1) THEN a
        ELSE IF a[1] = -1 THEN NaN
        ELSE IF r * r = n THEN <<1, <<r>>, a[3] \div 2>>
        ELSE FRootRound(m, BSqrt(m), (a[3] - k - ((a[3] - k) % 2)) \div 2)

\* a * b + c rounded once (a fused multiply-add): m is the exact product of
\* the mantissas; a c more than 55 bits above the product is the result, a
\* c too far below the product to reach its last bit counts as a fraction
\* of that bit, and otherwise the sum is exact before it is rounded
Fma(a, b, c) ==
    LET m == BMulFrom(a[2], b[2], 1)
        e == a[3] + b[3]
        tp == BBits(m) + e
        tc == BBits(c[2]) + c[3]
        lo == IF e < c[3] THEN e ELSE c[3]
    IN  IF a = NaN \/ b = NaN \/ RAbs(a) = Infinity(1) \/ RAbs(b) = Infinity(1)
            \/ RIsZero(a) \/ RIsZero(b)
        THEN RAdd(RMul(a, b), c)
        ELSE IF c = NaN \/ RAbs(c) = Infinity(1) THEN c
        ELSE IF RIsZero(c) THEN FRound(a[1] * b[1], m, e, FALSE)
        ELSE IF tc - tp > MantBits + 2 THEN c
        ELSE IF tp - tc > 3 * MantBits + 3
        THEN FRound(a[1] * b[1],
                    IF a[1] * b[1] = c[1] THEN BShl(m, MantBits + 2)
                    ELSE BSub(BShl(m, MantBits + 2), <<1>>),
                    e - (MantBits + 2), TRUE)
        ELSE FAddMant(a[1] * b[1], BShl(m, e - lo), c[1], BShl(c[2], c[3] - lo), lo)

-----------------------------------------------------------------------------
(* np.exp, as the exp of the C library computes it where the processor has  *)
(* a fused multiply-add: exp(x) = 2^(k/N) * exp(r) with N = 128, k the      *)
(* integer nearest to x * N / ln 2 and r = x - k * ln 2 / N; 2^(k/N) comes  *)
(* from a table and exp(r) - 1 from a polynomial of degree 5.               *)

\* the constants of the algorithm: N / ln 2, -ln 2 / N in a high and a low
\* part, 1.5 * 2^52, the coefficients of r^2 .. r^5, and for j = 0..N-1 the
\* pair <<T, H>> with 2^(j/N) = H * (1 + T), H the nearest float64
exp_data ==
    [invln2N |-> <<1, <<16767, 25899, 10894, 92>>, -44>>,
     negln2hiN |-> <<-1, <<32637, 11842, 44>>, -43>>,
     negln2loN |-> <<-1, <<7581, 15518, 28469, 115>>, -98>>,
     shift |-> <<1, <<3>>, 51>>,
     poly |-> <<<<1, <<32189, 32767, 32767, 255>>, -54>>,
                <<1, <<21775, 10922, 21845, 42>>, -53>>,
                <<1, <<11153, 7726, 21847, 170>>, -57>>,
                <<1, <<20503, 20297, 17477, 136>>, -59>>>>,
     tab |-> <<
        <<<<1, <<>>, 0>>, <<1, <<1>>, 0>>>>,
        <<<<1, <<24503, 6792, 30366, 108>>, -105>>, <<1, <<13109, 21494, 22774, 128>>, -52>>>>,
        <<<<-1, <<23645, 14769, 78, 139>>, -108>>, <<1, <<97, 31983, 12904, 129>>, -52>>>>,
        <<<<-1, <<26321, 8462, 31208, 130>>, -106>>, <<1, <<32645, 20700, 3159, 130>>, -52>>>>,
        <<<<1, <<30227, 27343, 18760, 230>>, -107>>, <<1, <<24925, 27018, 22960, 32>>, -50>>>>,
        <<<<-1, <<18301, 9209, 7424, 111>>, -106>>, <<1, <<31599, 10717, 24790, 65>>, -51>>>>,
        <<<<1, <<18529, 17357, 23865, 135>>, -109>>, <<1, <<13177, 17949, 17314, 16>>, -49>>>>,
        <<<<1, <<21401, 13927, 3985, 133>>, -106>>, <<1, <<29571, 5517, 30971, 132>>, -52>>>>,
        <<<<1, <<31597, 15110, 27289, 188>>, -106>>, <<1, <<2319, 23027, 21857, 133>>, -52>>>>,
        <<<<1, <<31743, 18814, 13594, 61>>, -105>>, <<1, <<18423, 22244, 12872, 134>>, -52>>>>,
        <<<<1, <<7377, 24671, 30965, 245>>, -112>>, <<1, <<26833, 13011, 18392, 67>>, -51>>>>,
        <<<<-1, <<28171, 4896, 3282, 208>>, -109>>, <<1, <<21275, 24573, 28058, 135>>, -52>>>>,
        <<<<-1, <<24199, 10799, 11428, 85>>, -105>>, <<1, <<23377, 8228, 19463, 136>>, -52>>>>,
        <<<<-1, <<27221, 6301, 958, 132>>, -110>>, <<1, <<3187, 24630, 10941, 34>>, -50>>>>,
        <<<<-1, <<31243, 14805, 4679, 71>>, -105>>, <<1, <<18799, 10986, 10323, 4>>, -47>>>>,
        <<<<1, <<21935, 21176, 20367, 134>>, -107>>, <<1, <<3665, 4427, 27235, 138>>, -52>>>>,
        <<<<-1, <<12905, 31401, 3466, 16>>, -104>>, <<1, <<20859, 30970, 19168, 139>>, -52>>>>,
        <<<<-1, <<12861, 11196, 32705, 248>>, -107>>, <<1, <<18165, 14476, 5618, 70>>, -51>>>>,
        <<<<1, <<21439, 32294, 9776, 220>>, -107>>, <<1, <<19317, 22239, 3439, 141>>, -52>>>>,
        <<<<-1, <<30099, 30225, 13112, 91>>, -105>>, <<1, <<5941, 16898, 15328, 35>>, -50>>>>,
        <<<<1, <<20859, 29667, 23966, 6>>, -101>>, <<1, <<23765, 12648, 10510, 71>>, -51>>>>,
        <<<<-1, <<14493, 5900, 7691, 255>>, -107>>, <<1, <<22813, 17913, 13632, 143>>, -52>>>>,
        <<<<1, <<17293, 2381, 15621, 211>>, -107>>, <<1, <<18027, 2146, 3191, 72>>, -51>>>>,
        <<<<1, <<1149, 25032, 26646, 131>>, -107>>, <<1, <<28235, 4477, 16019, 72>>, -51>>>>,
        <<<<1, <<10789, 29140, 3837, 45>>, -104>>, <<1, <<11335, 7069, 7229, 18>>, -49>>>>,
        <<<<1, <<18557, 25832, 30819, 186>>, -107>>, <<1, <<9791, 8037, 18233, 146>>, -52>>>>,
        <<<<1, <<29689, 6175, 3671, 65>>, -106>>, <<1, <<31965, 19396, 11541, 147>>, -52>>>>,
        <<<<-1, <<1071, 16241, 28918, 90>>, -105>>, <<1, <<25473, 17386, 4991, 148>>, -52>>>>,
        <<<<1, <<11057, 23059, 24453, 151>>, -107>>, <<1, <<24289, 27199, 31351, 148>>, -52>>>>,
        <<<<-1, <<24573, 6767, 17206, 116>>, -111>>, <<1, <<11673, 31259, 11807, 9>>, -48>>>>,
        <<<<1, <<685, 14598, 14210, 54>>, -105>>, <<1, <<779, 19912, 18966, 150>>, -52>>>>,
        <<<<1, <<19343, 5021, 21066, 240>>, -109>>, <<1, <<6059, 10558, 22879, 75>>, -51>>>>,
        <<<<1, <<21979, 19888, 6890, 77>>, -106>>, <<1, <<14101, 5219, 7160, 152>>, -52>>>>,
        <<<<1, <<7443, 29014, 16897, 44>>, -105>>, <<1, <<22577, 30873, 1475, 153>>, -52>>>>,
        <<<<1, <<31781, 24019, 14962, 127>>, -106>>, <<1, <<5887, 25800, 28706, 153>>, -52>>>>,
        <<<<-1, <<5825, 7623, 9088, 45>>, -105>>, <<1, <<8177, 16165, 23317, 154>>, -52>>>>,
        <<<<-1, <<27149, 29458, 9590, 18>>, -103>>, <<1, <<10699, 28277, 18076, 155>>, -52>>>>,
        <<<<-1, <<5831, 6993, 4080, 100>>, -105>>, <<1, <<27699, 27909, 6492, 78>>, -51>>>>,
        <<<<-1, <<7017, 16020, 9168, 71>>, -107>>, <<1, <<8183, 27083, 8044, 157>>, -52>>>>,
        <<<<-1, <<6933, 26524, 25702, 200>>, -106>>, <<1, <<10469, 1575, 3255, 158>>, -52>>>>,
        <<<<1, <<19565, 20052, 32034, 172>>, -107>>, <<1, <<6673, 19474, 15692, 79>>, -51>>>>,
        <<<<-1, <<13509, 31272, 9408, 76>>, -105>>, <<1, <<8199, 598, 31301, 39>>, -50>>>>,
        <<<<-1, <<2395, 4143, 7741, 197>>, -110>>, <<1, <<5909, 8695, 11284, 80>>, -51>>>>,
        <<<<-1, <<6683, 20115, 12909, 225>>, -108>>, <<1, <<10391, 12961, 18391, 161>>, -52>>>>,
        <<<<1, <<11281, 16773, 4021, 155>>, -111>>, <<1, <<2349, 16579, 14369, 162>>, -52>>>>,
        <<<<1, <<25839, 30220, 6180, 179>>, -106>>, <<1, <<87, 23098, 10503, 163>>, -52>>>>,
        <<<<1, <<889, 13634, 13191, 246>>, -109>>, <<1, <<5069, 22200, 8616, 10>>, -48>>>>,
        <<<<1, <<28963, 18401, 32739, 9>>, -102>>, <<1, <<27119, 28887, 18005, 82>>, -51>>>>,
        <<<<1, <<11003, 22383, 9267, 11>>, -104>>, <<1, <<10791, 10860, 32619, 165>>, -52>>>>,
        <<<<1, <<24695, 22185, 30455, 152>>, -106>>, <<1, <<23821, 13307, 29386, 166>>, -52>>>>,
        <<<<-1, <<20935, 113, 10344, 126>>, -106>>, <<1, <<11431, 27962, 26313, 167>>, -52>>>>,
        <<<<-1, <<9033, 14631, 31539, 190>>, -107>>, <<1, <<13089, 8911, 11701, 84>>, -51>>>>,
        <<<<-1, <<14431, 31262, 31514, 198>>, -108>>, <<1, <<10177, 22173, 26710, 84>>, -51>>>>,
        <<<<-1, <<11899, 27771, 9357, 88>>, -106>>, <<1, <<4623, 5307, 18067, 170>>, -52>>>>,
        <<<<1, <<27591, 6397, 27146, 76>>, -105>>, <<1, <<5101, 14005, 24206, 85>>, -51>>>>,
        <<<<1, <<6917, 24341, 25308, 220>>, -108>>, <<1, <<18429, 10543, 13387, 172>>, -52>>>>,
        <<<<1, <<21513, 17464, 3975, 131>>, -106>>, <<1, <<21545, 14992, 11295, 173>>, -52>>>>,
        <<<<1, <<25461, 20505, 3850, 83>>, -111>>, <<1, <<18103, 5298, 9370, 174>>, -52>>>>,
        <<<<1, <<16437, 22217, 19352, 161>>, -106>>, <<1, <<9257, 17771, 29623, 21>>, -49>>>>,
        <<<<-1, <<30367, 17202, 4393, 231>>, -107>>, <<1, <<23561, 29421, 6022, 176>>, -52>>>>,
        <<<<-1, <<27061, 20219, 6626, 28>>, -104>>, <<1, <<21893, 24692, 4602, 177>>, -52>>>>,
        <<<<-1, <<29911, 2347, 9969, 81>>, -106>>, <<1, <<26137, 25420, 18536, 5>>, -47>>>>,
        <<<<-1, <<19211, 24085, 26478, 19>>, -103>>, <<1, <<8741, 1194, 2274, 179>>, -52>>>>,
        <<<<1, <<1625, 16447, 4266, 46>>, -108>>, <<1, <<10611, 10393, 1367, 180>>, -52>>>>,
        <<<<-1, <<17477, 28631, 23031, 19>>, -103>>, <<1, <<15309, 19710, 633, 181>>, -52>>>>,
        <<<<-1, <<23745, 1844, 9563, 104>>, -108>>, <<1, <<23231, 27159, 73, 182>>, -52>>>>,
        <<<<-1, <<21751, 14445, 20447, 77>>, -108>>, <<1, <<6703, 30922, 32456, 182>>, -52>>>>,
        <<<<-1, <<2129, 10689, 28917, 134>>, -107>>, <<1, <<25889, 31912, 32637, 45>>, -50>>>>,
        <<<<-1, <<16079, 31924, 32145, 192>>, -108>>, <<1, <<6109, 29814, 8053, 46>>, -50>>>>,
        <<<<-1, <<14299, 22545, 15250, 11>>, -103>>, <<1, <<24669, 9298, 16282, 46>>, -50>>>>,
        <<<<-1, <<29509, 7765, 12900, 88>>, -106>>, <<1, <<26569, 11396, 32685, 186>>, -52>>>>,
        <<<<1, <<21715, 15379, 29485, 132>>, -106>>, <<1, <<23871, 8124, 421, 188>>, -52>>>>,
        <<<<-1, <<9501, 29339, 19314, 217>>, -108>>, <<1, <<391, 26582, 1105, 189>>, -52>>>>,
        <<<<1, <<16491, 10447, 13301, 167>>, -106>>, <<1, <<24729, 304, 986, 95>>, -51>>>>,
        <<<<1, <<27733, 22444, 12166, 175>>, -109>>, <<1, <<10033, 14031, 17894, 95>>, -51>>>>,
        <<<<-1, <<26529, 12211, 17290, 98>>, -106>>, <<1, <<3337, 21566, 2126, 96>>, -51>>>>,
        <<<<-1, <<19917, 30877, 27062, 38>>, -104>>, <<1, <<19987, 12953, 5670, 193>>, -52>>>>,
        <<<<-1, <<32655, 14873, 15624, 65>>, -106>>, <<1, <<18349, 3143, 7273, 194>>, -52>>>>,
        <<<<-1, <<11191, 22642, 10401, 83>>, -105>>, <<1, <<4845, 13961, 9062, 195>>, -52>>>>,
        <<<<1, <<1861, 26459, 8538>>, -97>>, <<1, <<26265, 13076, 11039, 196>>, -52>>>>,
        <<<<1, <<15021, 24824, 14127, 59>>, -105>>, <<1, <<8411, 1109, 13205, 197>>, -52>>>>,
        <<<<-1, <<26623, 14731, 22914, 173>>, -109>>, <<1, <<20771, 2906, 20274, 49>>, -50>>>>,
        <<<<1, <<22481, 11513, 30339, 55>>, -106>>, <<1, <<15259, 6421, 25437, 99>>, -51>>>>,
        <<<<-1, <<15747, 20028, 9342, 152>>, -106>>, <<1, <<32739, 2961, 10422, 100>>, -51>>>>,
        <<<<-1, <<7721, 5848, 9954, 237>>, -110>>, <<1, <<17893, 24987, 23774, 201>>, -52>>>>,
        <<<<-1, <<14681, 31009, 4069, 225>>, -109>>, <<1, <<21007, 6032, 26899, 202>>, -52>>>>,
        <<<<-1, <<31957, 8948, 1670, 73>>, -105>>, <<1, <<25829, 21499, 24416, 12>>, -48>>>>,
        <<<<-1, <<3659, 11981, 10675, 174>>, -107>>, <<1, <<989, 28874, 16866, 102>>, -51>>>>,
        <<<<1, <<20007, 22307, 16368, 141>>, -108>>, <<1, <<16137, 12372, 28964, 12>>, -48>>>>,
        <<<<1, <<29627, 16916, 18647, 238>>, -109>>, <<1, <<8995, 13254, 8588, 207>>, -52>>>>,
        <<<<-1, <<8803, 17604, 5136, 190>>, -107>>, <<1, <<25957, 30395, 12697, 208>>, -52>>>>,
        <<<<1, <<12757, 18372, 29211, 216>>, -107>>, <<1, <<11571, 22676, 17007, 209>>, -52>>>>,
        <<<<-1, <<15125, 10105, 28487, 141>>, -106>>, <<1, <<9565, 25724, 21518, 210>>, -52>>>>,
        <<<<1, <<6377, 7406, 6243, 67>>, -105>>, <<1, <<5739, 1228, 15567, 26>>, -49>>>>,
        <<<<1, <<23219, 23782, 9745, 163>>, -107>>, <<1, <<32191, 10995, 31149, 212>>, -52>>>>,
        <<<<-1, <<10093, 19399, 24525, 37>>, -105>>, <<1, <<31165, 16339, 1751, 107>>, -51>>>>,
        <<<<1, <<13191, 9622, 27102, 224>>, -107>>, <<1, <<21421, 12981, 8830, 215>>, -52>>>>,
        <<<<-1, <<27901, 19153, 30494, 65>>, -105>>, <<1, <<23347, 10637, 7182, 108>>, -51>>>>,
        <<<<-1, <<22365, 22236, 1970, 87>>, -109>>, <<1, <<5627, 28830, 20106, 217>>, -52>>>>,
        <<<<-1, <<7129, 29165, 2624, 2>>, -100>>, <<1, <<11421, 3557, 13029, 109>>, -51>>>>,
        <<<<-1, <<25805, 7254, 22260, 49>>, -107>>, <<1, <<24135, 26102, 32219, 219>>, -52>>>>,
        <<<<-1, <<2613, 22193, 15241, 143>>, -106>>, <<1, <<805, 12449, 19296, 110>>, -51>>>>,
        <<<<1, <<24013, 5311, 32604, 167>>, -108>>, <<1, <<24809, 4171, 6205, 111>>, -51>>>>,
        <<<<-1, <<9771, 32073, 15867, 35>>, -104>>, <<1, <<7689, 14254, 19209, 223>>, -52>>>>,
        <<<<1, <<3251, 24926, 15032, 155>>, -108>>, <<1, <<21671, 28354, 6555, 56>>, -50>>>>,
        <<<<1, <<32613, 11855, 25394, 61>>, -105>>, <<1, <<26685, 24575, 342, 113>>, -51>>>>,
        <<<<1, <<22123, 26756, 24719, 41>>, -105>>, <<1, <<20811, 23727, 8132, 227>>, -52>>>>,
        <<<<1, <<6759, 28828, 14012, 158>>, -109>>, <<1, <<26549, 10253, 15798, 228>>, -52>>>>,
        <<<<1, <<17197, 6948, 13718, 23>>, -106>>, <<1, <<4201, 14815, 23683, 229>>, -52>>>>,
        <<<<-1, <<23273, 972, 5169, 66>>, -106>>, <<1, <<25085, 21853, 15894, 115>>, -51>>>>,
        <<<<-1, <<31343, 32767, 13684, 253>>, -107>>, <<1, <<25183, 9475, 1837, 58>>, -50>>>>,
        <<<<-1, <<10569, 28907, 14008, 128>>, -106>>, <<1, <<17657, 2061, 24334, 116>>, -51>>>>,
        <<<<1, <<1959, 19578, 3606, 165>>, -108>>, <<1, <<9351, 14839, 24675, 234>>, -52>>>>,
        <<<<-1, <<8719, 16512, 18040, 148>>, -107>>, <<1, <<12403, 17842, 16497, 29>>, -49>>>>,
        <<<<1, <<25771, 27360, 23120, 60>>, -105>>, <<1, <<12933, 1974, 10136, 237>>, -52>>>>,
        <<<<1, <<27467, 22530, 26982, 161>>, -107>>, <<1, <<3491, 7984, 14948, 7>>, -47>>>>,
        <<<<-1, <<15903, 3944, 21636, 150>>, -107>>, <<1, <<7007, 26359, 29276, 239>>, -52>>>>,
        <<<<-1, <<3529, 30350, 10980, 201>>, -107>>, <<1, <<8489, 10731, 6424, 241>>, -52>>>>,
        <<<<1, <<2259, 16501, 22545, 165>>, -108>>, <<1, <<8187, 26507, 8285, 121>>, -51>>>>,
        <<<<1, <<29297, 9018, 6065, 158>>, -107>>, <<1, <<19587, 30606, 26951, 243>>, -52>>>>,
        <<<<-1, <<14623, 20986, 32196, 15>>, -103>>, <<1, <<18541, 8868, 18783, 122>>, -51>>>>,
        <<<<-1, <<29821, 17478, 14947, 237>>, -107>>, <<1, <<26609, 23324, 15648, 246>>, -52>>>>,
        <<<<1, <<17409, 4202, 25054, 30>>, -104>>, <<1, <<23079, 23746, 26735, 247>>, -52>>>>,
        <<<<1, <<30105, 17321, 22313, 80>>, -106>>, <<1, <<14999, 28375, 5292, 249>>, -52>>>>,
        <<<<1, <<17143, 12753, 18770, 105>>, -106>>, <<1, <<14613, 13019, 29959, 3>>, -46>>>>,
        <<<<-1, <<25581, 18551, 24299, 241>>, -107>>, <<1, <<12165, 22222, 31741, 62>>, -50>>>>,
        <<<<1, <<19869, 6947, 9453, 188>>, -108>>, <<1, <<21019, 24679, 21472, 31>>, -49>>>>,
        <<<<1, <<19593, 705, 5893, 152>>, -110>>, <<1, <<29169, 22302, 20232, 254>>, -52>>>>>>]

\* the result for 512 <= |x| < 1024, where 2^(k/N) is outside the range of a
\* float64 or the result may be: tmp is exp(r) - 1 with the tail of the
\* table entry, H the table entry and p = k \div N; the scale is taken 1009
\* binary places down, or 1022 up, and the result is put back by a last
\* product, after a rounding to the precision of a subnormal result
specialcase(tmp, H, p) ==
    LET up == <<1, H[2], H[3] + p + 1022>>
        st == RMul(up, tmp)
        res == RAdd(up, st)
        hi == RAdd(Rat(1), res)
        lo == RAdd(RAdd(RSub(Rat(1), hi), res), RAdd(RSub(up, res), st))
    IN  IF p >= 0
        THEN RMul(<<1, <<1>>, 1009>>,
                  Fma(<<1, H[2], H[3] + p - 1009>>, tmp, <<1, H[2], H[3] + p - 1009>>))
        ELSE IF RLess(res, Rat(1))
        THEN RMul(<<1, <<1>>, -1022>>, RSub(RAdd(hi, lo), Rat(1)))
        ELSE RMul(<<1, <<1>>, -1022>>, res)

\* exp(v) for 2^-54 <= |v| < 1024 from kd, the float of k, and r
ExpReduced(v, kd, r) ==
    LET k == kd[1] * (Limb(kd[2], 1) + Limb(kd[2], 2) * B) * 2 ^ kd[3]
        TH == exp_data.tab[(k % 128) + 1]
        r2 == RMul(r, r)
        tmp == Fma(RMul(r2, r2), Fma(r, exp_data.poly[4], exp_data.poly[3]),
                   Fma(r2, Fma(r, exp_data.poly[2], exp_data.poly[1]),
                       RAdd(TH[1], r)))
        scale == <<1, TH[2][2], TH[2][3] + (k \div 128)>>
    IN  IF ~RLess(RAbs(v), Rat(512)) THEN specialcase(tmp, TH[2], k \div 128)
        ELSE Fma(scale, tmp, scale)

\* np.exp(v): 1 + v for |v| below 2^-54, inf or 0 from |v| = 1024
NpExp(v) ==
    LET kd == RSub(RAdd(RMul(exp_data.invln2N, v), exp_data.shift), exp_data.shift)
    IN  IF v = NaN \/ v = Infinity(1) THEN v
        ELSE IF RLess(RAbs(v), <<1, <<1>>, -54>>) THEN RAdd(Rat(1), v)
        ELSE IF ~RLess(RAbs(v), Rat(1024))
        THEN (IF v[1] = -1 THEN Rat(0) ELSE Infinity(1))
        ELSE ExpReduced(v, kd, Fma(kd, exp_data.negln2loN, Fma(kd, exp_data.negln2hiN, v)))

\* sum() of a sequence of values, left to right from 0
RECURSIVE RSum(_)
RSum(s) == IF s = <<>> THEN Rat(0) ELSE RAdd(RSum(SubSeq(s, 1, Len(s) - 1)), s[Len(s)])

\* variant: the largest value
RECURSIVE RMax(_)
RMax(s) ==
    IF Len(s) = 1 THEN s[1]
    ELSE LET m == RMax(SubSeq(s, 1, Len(s) - 1))
         IN  IF RLess(m, s[Len(s)]) THEN s[Len(s)] ELSE m

\* np.min of a non-empty sequence of values: nan if one of them is
RECURSIVE RMin(_)
RMin(s) ==
    IF Len(s) = 1 THEN s[1]
    ELSE LET m == RMin(SubSeq(s, 1, Len(s) - 1))
         IN  IF m = NaN \/ s[Len(s)] = NaN THEN NaN
             ELSE IF RLess(s[Len(s)], m) THEN s[Len(s)] ELSE m

\* min() of a non-empty sequence of values: a later value replaces the
\* smallest so far where it compares below it
RECURSIVE min(_)
min(s) ==
    IF Len(s) = 1 THEN s[1]
    ELSE LET m == min(SubSeq(s, 1, Len(s) - 1))
         IN  IF RLess(s[Len(s)], m) THEN s[Len(s)] ELSE m

ice_density == 910
ocean_density == 1028

-----------------------------------------------------------------------------
(* Text files of integers: np.savetxt(fmt="%i") and np.loadtxt(dtype='i') *)

Digits == <<"0", "1", "2", "3", "4", "5", "6", "7", "8", "9">>

\* "%i" % n : the decimal digits of n, most significant first
RECURSIVE FormatNat(_)
FormatNat(n) ==
    IF n < 10 THEN <<Digits[n + 1]>>
    ELSE FormatNat(n \div 10) \o <<Digits[(n % 10) + 1]>>

FormatInt(n) == IF n < 0 THEN <<"-">> \o FormatNat(-n) ELSE FormatNat(n)

DigitValue(c) == (CHOOSE k \in 1..10 : Digits[k] = c) - 1

\* int(line) : the value of a line of decimal digits
RECURSIVE ParseNat(_)
ParseNat(line) ==
    IF Len(line) = 1 THEN DigitValue(line[1])
    ELSE 10 * ParseNat(SubSeq(line, 1, Len(line) - 1)) + DigitValue(line[Len(line)])

ParseInt(line) ==
    IF line[1] = "-" THEN -ParseNat(Tail(line)) ELSE ParseNat(line)

\* np.savetxt(file, a, fmt="%i") : one line per element
SaveTxt(a) == [k \in 1..ALen(a) |-> FormatInt(a[k - 1])]

\* np.loadtxt(file, dtype='i') : one element per line; a file of a single
\* value gives a 0-d array, any other file a 1-d array
LoadTxt(lines) ==
    [ndim |-> IF Len(lines) = 1 THEN 0 ELSE 1,
     flat |-> [k \in 0..(Len(lines) - 1) |-> ParseInt(lines[k + 1])]]

\* np.concatenate((a, b))
Concatenate(a, b) ==
    [k \in 0..(ALen(a) + ALen(b) - 1) |->
        IF k < ALen(a) THEN a[k] ELSE b[k - ALen(a)]]

\* a[1::]
DropFirst(a) == [k \in 0..(ALen(a) - 2) |-> a[k + 1]]

-----------------------------------------------------------------------------
(* The target meshes explored.  cellsOnCell rows are padded to two slots. *)

\* a line of three cells, boundary slots outside the degree
Line3 ==
    [nCells |-> 3, x |-> Arr(<<1000, 2000, 3000>>), y |-> Arr(<<1000, 1000, 1000>>),
     cellsOnCell |-> Arr(<< <<2, 0>>, <<1, 3>>, <<2, 0>> >>),
     nEdgesOnCell |-> Arr(<<1, 2, 1>>)]

\* a line of three cells, cells 1 and 2 at the same centroid
Dup3 ==
    [nCells |-> 3, x |-> Arr(<<0, 1, 1>>), y |-> Arr(<<0, 0, 0>>),
     cellsOnCell |-> Arr(<< <<2, 0>>, <<1, 3>>, <<2, 0>> >>),
     nEdgesOnCell |-> Arr(<<1, 2, 1>>)]

\* asymmetric neighbour lists: 0 lists 1, 1 lists 2, 2 lists 0
Asym3 ==
    [nCells |-> 3, x |-> Arr(<<0, 1, 2>>), y |-> Arr(<<0, 0, 0>>),
     cellsOnCell |-> Arr(<< <<2, 0>>, <<3, 0>>, <<1, 0>> >>),
     nEdgesOnCell |-> Arr(<<1, 1, 1>>)]

\* a triangle whose cells 1 and 2 share a centroid and list each other
Twin3 ==
    [nCells |-> 3, x |-> Arr(<<0, 1, 1>>), y |-> Arr(<<0, 0, 0>>),
     cellsOnCell |-> Arr(<< <<2, 3>>, <<1, 3>>, <<1, 2>> >>),
     nEdgesOnCell |-> Arr(<<2, 2, 2>>)]

\* a line of five cells at unit spacing
Line5 ==
    [nCells |-> 5, x |-> Arr(<<0, 1, 2, 3, 4>>), y |-> Arr(<<0, 0, 0, 0, 0>>),
     cellsOnCell |-> Arr(<< <<2, 0>>, <<1, 3>>, <<2, 4>>, <<3, 5>>, <<4, 0>> >>),
     nEdgesOnCell |-> Arr(<<1, 2, 2, 2, 1>>)]

\* the meshes of the fill runs
Meshes ==
    {Line3, Dup3, Asym3, Twin3,
    \* a line of four cells
        [nCells |-> 4, x |-> Arr(<<0, 1, 2, 3>>), y |-> Arr(<<0, 0, 0, 0>>),
         cellsOnCell |-> Arr(<< <<2, 0>>, <<1, 3>>, <<2, 4>>, <<3, 0>> >>),
         nEdgesOnCell |-> Arr(<<1, 2, 2, 1>>)],
    \* no-neighbour entries inside the degree: cell 0 has no real neighbour,
    \* cell 1 has one real neighbour and one missing one
        [nCells |-> 3, x |-> Arr(<<2, 1, 2>>), y |-> Arr(<<3, 0, 0>>),
         cellsOnCell |-> Arr(<< <<0, 0>>, <<0, 3>>, <<2, 0>> >>),
         nEdgesOnCell |-> Arr(<<1, 2, 1>>)],
    \* cell 2 has degree 0: the graph is not connected
        [nCells |-> 3, x |-> Arr(<<0, 1, 5>>), y |-> Arr(<<0, 0, 0>>),
         cellsOnCell |-> Arr(<< <<2, 0>>, <<1, 0>>, <<0, 0>> >>),
         nEdgesOnCell |-> Arr(<<1, 1, 0>>)]}

Cells(m) == 0..(m.nCells - 1)

-----------------------------------------------------------------------------
(* The runs explored: command-line options, source samples, id file and    *)
(* the target file as opened.  Two families keep the product finite: one   *)
(* varies the correspondence inputs, the other the mesh, mask and the      *)
(* extrapolation and smoothing options.                                     *)

\* the keys of mpas_exodus_var_dic with a 2-D (Time, nCells) target field
VarNames == {"beta", "thickness", "stiffnessFactor", "surfaceTemperature"}

\* sample values: n values starting at d, cycling through 0..MaxData
SampleData(n, d) == [k \in 0..(n - 1) |-> Rat((k + d) % (MaxData + 1))]

\* the coordinate the script holds for a node that the Exodus file places
\* at n/1000 km: the file's float times 1000
FromKm(n) == RMul(RDiv(Rat(n), Rat(1000)), Rat(1000))

\* where a source sample can lie: on a cell centroid, next to the centroid
\* of cell 1, or far from every cell
SamplePoints(m) ==
    {<<FromKm(p[1]), FromKm(p[2])>> :
        p \in {<<m.x[c], m.y[c]>> : c \in Cells(m)}
                \cup {<<m.x[1] + 1, m.y[1] + 1>>, <<m.x[0] + 4000, m.y[0]>>}}

\* an id file: the declared count, then the ids
IdFileOf(declared, ids) == SaveTxt(Concatenate(Arr(<<declared>>), Arr(ids)))

\* the id files: any ids of cells behind any declared count, the file of an
\* empty map, and files of one id at and beyond both ends of the cell range
IdFiles(m) ==
    {IdFileOf(declared, ids) :
        declared \in 1..MaxSamples,
        ids \in UNION {[1..k -> 1..m.nCells] : k \in 1..MaxSamples}}
    \cup {IdFileOf(0, <<>>)}
    \cup {IdFileOf(1, <<id>>) : id \in {0, m.nCells + 1, 1 - m.nCells, -m.nCells}}

BedPattern(m) == [c \in Cells(m) |-> IF c % 2 = 0 THEN 1 ELSE -1]
BedBelow(m) == [c \in Cells(m) |-> -1]
NoBed == <<>>

\* the field's values in the target file before the run
FieldInit(m) == [c \in Cells(m) |-> Rat(c + 2)]

\* the coordinate-matching runs on mesh m
CoordRuns(m) ==
    {[mesh |-> m, var_name |-> v, conversion_method |-> "coord",
      mask_scheme |-> "all", extrapolation |-> "min", smooth_iter_num |-> 0,
      xs |-> [k \in 0..(Len(p) - 1) |-> p[k + 1][1]],
      ys |-> [k \in 0..(Len(p) - 1) |-> p[k + 1][2]],
      data |-> SampleData(Len(p), d), id_file |-> <<>>,
      thickness |-> [c \in Cells(m) |-> c % 2], bed |-> b,
      field |-> FieldInit(m)] :
        v \in VarNames,
        p \in UNION {[1..k -> SamplePoints(m)] : k \in 0..MaxSamples},
        d \in 0..MaxData, b \in {NoBed, BedPattern(m)}}

\* the id-file runs (and the runs with an unsupported method) on mesh m
IdRuns(m) ==
    {[mesh |-> m, var_name |-> v, conversion_method |-> cm,
      mask_scheme |-> "all", extrapolation |-> "min", smooth_iter_num |-> 0,
      xs |-> [k \in 0..(n - 1) |-> FromKm(m.x[k])],
      ys |-> [k \in 0..(n - 1) |-> FromKm(m.y[k])],
      data |-> SampleData(n, d), id_file |-> f,
      thickness |-> [c \in Cells(m) |-> c % 2], bed |-> b,
      field |-> FieldInit(m)] :
        v \in VarNames, cm \in {"id", "nearest"}, n \in 0..MaxSamples,
        f \in IdFiles(m), d \in 0..MaxData, b \in {NoBed, BedPattern(m)}}

\* the correspondence family
CorrRuns == CoordRuns(Line3) \cup CoordRuns(Dup3) \cup IdRuns(Line3)

\* how the mask comes about: any thickness pattern under "all", a bedrock
\* pattern under "grd", or an unsupported scheme
MaskInputs(m) ==
    {[mask_scheme |-> "all", thickness |-> t, bed |-> NoBed] :
        t \in [Cells(m) -> {0, 1}]}
    \cup {[mask_scheme |-> "grd", thickness |-> [c \in Cells(m) |-> 1], bed |-> b] :
        b \in {BedPattern(m), BedBelow(m)}}
    \cup {[mask_scheme |-> "flt", thickness |-> [c \in Cells(m) |-> 1], bed |-> NoBed]}

\* the field, the extrapolation rule and the smoothing count
FillOptions ==
    {[var_name |-> v, extrapolation |-> e, smooth_iter_num |-> s] :
        v \in VarNames \ {"thickness"}, e \in {"min", "idw"}, s \in 0..MaxIter}
    \cup {[var_name |-> v, extrapolation |-> "max", smooth_iter_num |-> 0] :
        v \in VarNames \ {"thickness"}}
    \cup {[var_name |-> "thickness", extrapolation |-> "min", smooth_iter_num |-> s] :
        s \in 0..MaxIter}

\* the extrapolation and smoothing runs on mesh m: one sample, mapped to cell 1
FillRunsOn(m) ==
    {[mesh |-> m, var_name |-> o.var_name, conversion_method |-> "id",
      mask_scheme |-> k.mask_scheme, extrapolation |-> o.extrapolation,
      smooth_iter_num |-> o.smooth_iter_num,
      xs |-> [j \in {0} |-> FromKm(m.x[0])], ys |-> [j \in {0} |-> FromKm(m.y[0])],
      data |-> [j \in {0} |-> Rat(MaxData)],
      id_file |-> IdFileOf(1, <<1>>),
      thickness |-> k.thickness, bed |-> k.bed, field |-> FieldInit(m)] :
        o \in FillOptions, k \in MaskInputs(m)}

\* the extrapolation and smoothing family
FillRuns == UNION {FillRunsOn(m) : m \in Meshes}

\* the line scenario: five cells, the two end cells hold ice and receive
\* the sample values 10 and 20, the three cells between hold any value
ScenarioRuns ==
    {[mesh |-> Line5, var_name |-> v, conversion_method |-> "id",
      mask_scheme |-> "all", extrapolation |-> e, smooth_iter_num |-> 0,
      xs |-> Arr(<<FromKm(0), FromKm(4)>>), ys |-> Arr(<<FromKm(0), FromKm(0)>>),
      data |-> Arr(<<Rat(10), Rat(20)>>), id_file |-> IdFileOf(2, <<1, 5>>),
      thickness |-> Arr(<<1, 0, 0, 0, 1>>), bed |-> NoBed,
      field |-> [c \in Cells(Line5) |-> Rat(q)]] :
        v \in {"stiffnessFactor", "surfaceTemperature"}, e \in {"min", "idw"},
        q \in {0, 15, 99}}

Runs == CorrRuns \cup FillRuns \cup ScenarioRuns

\* the target file's fields as opened
TargetFile(r) ==
    LET names == {"thickness", r.var_name}
                    \cup (IF r.bed = NoBed THEN {} ELSE {"bedTopography"})
    IN  [nm \in names |->
            IF nm = "thickness" THEN [c \in Cells(r.mesh) |-> Rat(r.thickness[c])]
            ELSE IF nm = "bedTopography" THEN [c \in Cells(r.mesh) |-> Rat(r.bed[c])]
            ELSE r.field]

NoMask == <<>>

\* The runs start where the source samples of one layer have been taken
\* (line 111): a single-layer source in column-wise ordering, a 2-D field.
Init ==
    \E r \in Runs :
        /\ ordering = 1
        /\ stride = 1
        /\ x_exo = r.xs
        /\ y_exo = r.ys
        /\ data_exo = r.data
        /\ shape = <<1, r.mesh.nCells>>
        /\ nVert = 0
        /\ var_name = r.var_name
        /\ conversion_method = r.conversion_method
        /\ mask_scheme = r.mask_scheme
        /\ extrapolation = r.extrapolation
        /\ smooth_iter_num = r.smooth_iter_num
        /\ nCells = r.mesh.nCells
        /\ x = r.mesh.x
        /\ y = r.mesh.y
        /\ cellsOnCell = r.mesh.cellsOnCell
        /\ nEdgesOnCell = r.mesh.nEdgesOnCell
        /\ x_exo_layer = r.xs
        /\ y_exo_layer = r.ys
        /\ data_exo_layer = r.data
        /\ id_file = r.id_file
        /\ dataset0 = TargetFile(r)
        /\ dataset = TargetFile(r)
        /\ usefulCellID_array = <<>>
        /\ id_map_file = <<>>
        /\ i = 0
        /\ keepCellMask = NoMask
        /\ keepCellMaskNew = NoMask
        /\ keepCellMaskOld = NoMask
        /\ searchCells = <<>>
        /\ pos = 0
        /\ pass_num = 0
        /\ iter_num = 0
        /\ written = [transplant |-> {}, extrapolation |-> {}, smoothing |-> {}]
        /\ pc = "method"
        /\ err = "none"

-----------------------------------------------------------------------------
(* Correspondence between source samples and target cells, lines 118-136 *)

\* the run is aborted at source line `where`
Abort(where) ==
    /\ pc' = "error"
    /\ err' = where

node_num_layer == ALen(x_exo_layer)

\* the literals 1e-10 and 1e-3
TinyOffset == RDiv(Rat(1), RMul(Rat(100000), Rat(100000)))
Tolerance == RDiv(Rat(1), Rat(1000))

\* abs(c - e)/(abs(c) + 1e-10) < 1e-3 for the cell coordinate c and the
\* sample coordinate e
Close(c, e) ==
    RLess(RDiv(RAbs(RSub(Rat(c), e)), RAdd(RAbs(Rat(c)), TinyOffset)), Tolerance)

index_x(k) == {c \in 0..(nCells - 1) : Close(x[c], x_exo_layer[k])}
index_y(k) == {c \in 0..(nCells - 1) : Close(y[c], y_exo_layer[k])}

\* variant: the two candidate sets joined instead of intersected
index_intersect_union(k) == Ascending(index_x(k) \cup index_y(k))

\* CPython's set of non-negative ints: a hash table of 2^n slots, -1 an
\* empty slot, the hash of an int being the int.  The slot of a key: from
\* key & mask, up to nine slots further on when the table has room for
\* them, then i = (i*5 + 1 + perturb) & mask with perturb >>= 5
RECURSIVE SetProbe(_, _, _, _)
SetProbe(table, key, at, perturb) ==
    LET mask == ALen(table) - 1
        probes == IF at + 9 <= mask THEN 9 ELSE 0
        found == {j \in at..(at + probes) : table[j] = -1 \/ table[j] = key}
    IN  IF found # {} THEN CHOOSE j \in found : \A h \in found : j <= h
        ELSE SetProbe(table, key,
                      (at * 5 + 1 + (perturb \div 32)) % (mask + 1),
                      perturb \div 32)

SetSlot(table, key) == SetProbe(table, key, key % ALen(table), key)

\* the keys of a table in the order iteration gives them: by slot
SetKeys(table) ==
    LET IsKey(v) == v # -1
    IN  SelectSeq([j \in 1..ALen(table) |-> table[j - 1]], IsKey)

\* an empty table of n slots
SetTable(n) == [j \in 0..(n - 1) |-> -1]

\* the table size after a resize: the first power of two above minused
RECURSIVE SetGrow(_, _)
SetGrow(n, minused) == IF n <= minused THEN SetGrow(2 * n, minused) ELSE n

\* the keys put into a table that has room for them
RECURSIVE SetFill(_, _)
SetFill(table, keys) ==
    IF keys = <<>> THEN table
    ELSE SetFill([table EXCEPT ![SetSlot(table, Head(keys))] = Head(keys)], Tail(keys))

\* set.add: the table is rebuilt with room for four times its keys (twice,
\* above 50000 keys) once three fifths of the slots are in use
SetAdd(table, key) ==
    IF table[SetSlot(table, key)] = key THEN table
    ELSE LET t == [table EXCEPT ![SetSlot(table, key)] = key]
             fill == Len(SetKeys(t))
         IN  IF fill * 5 < (ALen(t) - 1) * 3 THEN t
             ELSE SetFill(SetTable(SetGrow(8, IF fill > 50000 THEN fill * 2
                                                  ELSE fill * 4)),
                          SetKeys(t))

\* set(a) for an array a, its elements added in order
RECURSIVE SetOf(_)
SetOf(keys) ==
    IF keys = <<>> THEN SetTable(8)
    ELSE SetAdd(SetOf(SubSeq(keys, 1, Len(keys) - 1)), keys[Len(keys)])

\* so & other: the keys of the smaller set (of other, when equal in size)
\* that are in the larger one, added in iteration order to a new set
SetAnd(so, other) ==
    LET swap == Len(SetKeys(other)) > Len(SetKeys(so))
        big == IF swap THEN other ELSE so
        small == IF swap THEN so ELSE other
        InBig(key) == \E j \in DOMAIN big : big[j] = key
    IN  SetOf(SelectSeq(SetKeys(small), InBig))

\* list(set(index_x) & set(index_y)); np.where lists index_x and index_y
\* in ascending order
index_intersect(k) ==
    SetKeys(SetAnd(SetOf(Ascending(index_x(k))), SetOf(Ascending(index_y(k)))))

\* usefulCellID_array = np.zeros((node_num_layer,), dtype=np.int32)
StartCoord ==
    /\ pc = "method"
    /\ conversion_method = "coord"
    /\ usefulCellID_array' = [k \in 0..(node_num_layer - 1) |-> 0]
    /\ i' = 0
    /\ pc' = "coord"
    /\ UNCHANGED <<config, dataset, id_map_file, keepCellMask, keepCellMaskNew,
                   keepCellMaskOld, searchCells, pos, pass_num, iter_num,
                   written, err>>

\* one iteration of the search loop; index_intersect[0] raises IndexError
\* on an empty list
CoordMatch ==
    /\ pc = "coord"
    /\ i < node_num_layer
    /\ IF Len(index_intersect(i)) = 0
       THEN /\ Abort("IndexError:125")
            /\ UNCHANGED <<usefulCellID_array, i>>
       ELSE /\ usefulCellID_array' =
                    [usefulCellID_array EXCEPT ![i] = index_intersect(i)[1] + 1]
            /\ i' = i + 1
            /\ UNCHANGED <<pc, err>>
    /\ UNCHANGED <<config, dataset, id_map_file, keepCellMask, keepCellMaskNew,
                   keepCellMaskOld, searchCells, pos, pass_num, iter_num, written>>

\* the lines of exodus_to_mpas_id_map.txt for the ids found
IdMapLines(ids) == SaveTxt(Concatenate(Arr(<<ALen(ids)>>), ids))

\* np.savetxt('exodus_to_mpas_id_map.txt', ...) after the loop
SaveIdMap ==
    /\ pc = "coord"
    /\ i = node_num_layer
    /\ id_map_file' = IdMapLines(usefulCellID_array)
    /\ pc' = "transplant"
    /\ UNCHANGED <<config, dataset, usefulCellID_array, i, keepCellMask,
                   keepCellMaskNew, keepCellMaskOld, searchCells, pos, pass_num,
                   iter_num, written, err>>

\* usefulCellID = np.loadtxt(id_file, dtype='i'); usefulCellID[1::] : the
\* ids read and the way the two lines were left; a 0-d array cannot be
\* sliced
ReadIdFile(lines) ==
    IF LoadTxt(lines).ndim = 0 THEN [ids |-> <<>>, err |-> "IndexError:133"]
    ELSE [ids |-> DropFirst(LoadTxt(lines).flat), err |-> "none"]

LoadIdFile ==
    /\ pc = "method"
    /\ conversion_method = "id"
    /\ IF ReadIdFile(id_file).err # "none"
       THEN /\ Abort(ReadIdFile(id_file).err)
            /\ UNCHANGED usefulCellID_array
       ELSE /\ usefulCellID_array' = ReadIdFile(id_file).ids
            /\ pc' = "transplant"
            /\ UNCHANGED err
    /\ UNCHANGED <<config, dataset, id_map_file, i, keepCellMask, keepCellMaskNew,
                   keepCellMaskOld, searchCells, pos, pass_num, iter_num,
                   written>>

\* sys.exit("Unsupported conversion method chosen! ...")
UnsupportedMethod ==
    /\ pc = "method"
    /\ conversion_method \notin {"coord", "id"}
    /\ Abort("SystemExit:136")
    /\ UNCHANGED <<config, dataset, usefulCellID_array, id_map_file, i,
                   keepCellMask, keepCellMaskNew, keepCellMaskOld, searchCells,
                   pos, pass_num, iter_num, written>>

-----------------------------------------------------------------------------
(* Transplant of the sample values, lines 145-179 (nVert_max = 1) *)

\* a[ids] with an integer index array
GetItems(a, ids) == [k \in DOMAIN ids |-> a[PyIndex(ids[k], ALen(a))]]

\* a[ids] = vals needs one value per index, or a single value to broadcast
ShapeOk(ids, vals) == ALen(vals) = ALen(ids) \/ ALen(vals) = 1

\* every index of ids is one numpy accepts for n elements: -n..n-1
InBounds(ids, n) == \A k \in DOMAIN ids : ids[k] \in (-n)..(n - 1)

\* a[ids] = vals : with a repeated index the last assignment stays
SetItems(a, ids, vals) ==
    [c \in DOMAIN a |->
        LET hits == {k \in DOMAIN ids : PyIndex(ids[k], ALen(a)) = c}
        IN  IF hits = {} THEN a[c]
            ELSE LET last == CHOOSE k \in hits : \A j \in hits : j <= k
                 IN  IF ALen(vals) = 1 THEN vals[0] ELSE vals[last]]

\* usefulCellID_array - 1
CellIndex == [k \in DOMAIN usefulCellID_array |-> usefulCellID_array[k] - 1]

\* the cells a[ids] = ... writes
CellsOf(ids) == {PyIndex(ids[k], nCells) : k \in DOMAIN ids}

\* np.exp(data_exo_layer) * 1000.0
BetaValues == [k \in DOMAIN data_exo_layer |-> RMul(NpExp(data_exo_layer[k]), Rat(1000))]

\* line 169 reads thickness after line 166 has assigned it
thicknessOrig(ds) ==
    GetItems(SetItems(ds["thickness"], CellIndex, data_exo_layer), CellIndex)

bedTopographyOrig(ds) == GetItems(ds["bedTopography"], CellIndex)

surfaceTopographyOrig(ds) ==
    [k \in DOMAIN CellIndex |-> RAdd(thicknessOrig(ds)[k], bedTopographyOrig(ds)[k])]

\* the thickness branch, lines 165-173
TransplantThickness(ds) ==
    LET t == SetItems(ds["thickness"], CellIndex, data_exo_layer)
    IN  IF "bedTopography" \in DOMAIN ds
        THEN [ds EXCEPT
                !["thickness"] = t,
                !["bedTopography"] =
                    SetItems(ds["bedTopography"], CellIndex,
                        [k \in DOMAIN CellIndex |->
                            RSub(surfaceTopographyOrig(ds)[k],
                                 data_exo_layer[IF ALen(data_exo_layer) = 1 THEN 0 ELSE k])])]
        ELSE [ds EXCEPT !["thickness"] = t]

\* the dataset after the one pass of the nVert loop
Transplanted(ds) ==
    IF var_name = "beta"
    THEN [ds EXCEPT !["beta"] = SetItems(ds["beta"], CellIndex, BetaValues)]
    ELSE IF var_name = "thickness"
    THEN TransplantThickness(ds)
    ELSE [ds EXCEPT ![var_name] = SetItems(ds[var_name], CellIndex, data_exo_layer)]

\* the one pass of the nVert loop; the assignment raises ValueError when
\* the values do not fit the indices, IndexError when an index is out of
\* bounds
Transplant ==
    /\ pc = "transplant"
    /\ IF ~ShapeOk(CellIndex, data_exo_layer)
       THEN /\ Abort("ValueError:164-179")
            /\ UNCHANGED <<dataset, written>>
       ELSE IF ~InBounds(CellIndex, nCells)
       THEN /\ Abort("IndexError:164-179")
            /\ UNCHANGED <<dataset, written>>
       ELSE /\ dataset' = Transplanted(dataset)
            /\ written' = [written EXCEPT !.transplant = CellsOf(CellIndex)]
            /\ pc' = "mask"
            /\ UNCHANGED err
    /\ UNCHANGED <<config, usefulCellID_array, id_map_file, i, keepCellMask,
                   keepCellMaskNew, keepCellMaskOld, searchCells, pos, pass_num,
                   iter_num>>

-----------------------------------------------------------------------------
(* The keep-mask, lines 184-205 *)

\* bedTopography if the file has it, zeros otherwise
bedrock ==
    IF "bedTopography" \in DOMAIN dataset THEN dataset["bedTopography"]
    ELSE [c \in 0..(nCells - 1) |-> Rat(0)]

\* thickness*ice_density/ocean_density + bedrock > 0.0
Grounded(c) ==
    RPos(RAdd(RDiv(RMul(dataset["thickness"][c], Rat(ice_density)), Rat(ocean_density)),
              bedrock[c]))

\* thickness > 0.0
HasIce(c) == RPos(dataset["thickness"][c])

MaskOf(scheme) ==
    [c \in 0..(nCells - 1) |->
        IF scheme = "grd" THEN (IF Grounded(c) THEN 1 ELSE 0)
        ELSE (IF HasIce(c) THEN 1 ELSE 0)]

BuildMask ==
    /\ pc = "mask"
    /\ IF mask_scheme \in {"grd", "all"}
       THEN /\ keepCellMask' = MaskOf(mask_scheme)
            /\ keepCellMaskNew' = MaskOf(mask_scheme)
            /\ keepCellMaskOld' = MaskOf(mask_scheme)
            /\ pc' = "extrapolation"
            /\ UNCHANGED err
       ELSE /\ keepCellMask' = [c \in 0..(nCells - 1) |-> 0]
            /\ Abort("SystemExit:202")
            /\ UNCHANGED <<keepCellMaskNew, keepCellMaskOld>>
    /\ UNCHANGED <<config, dataset, usefulCellID_array, id_map_file, i,
                   searchCells, pos, pass_num, iter_num, written>>

-----------------------------------------------------------------------------
(* Helpers shared by extrapolation and smoothing *)

\* np.count_nonzero(mask)
CountNonzero(mask) == Cardinality({c \in DOMAIN mask : mask[c] # 0})

\* np.where(mask == 0)[0]
WhereZero(mask) == Ascending({c \in DOMAIN mask : mask[c] = 0})

\* variant: the slice stops one slot short of the degree
NeighborCellIdShort(iCell) ==
    [k \in 1..(nEdgesOnCell[iCell] - 1) |-> cellsOnCell[iCell][k] - 1]

\* cellsOnCell[iCell,:nEdgesOnCell[iCell]] - 1 ; a no-neighbour slot gives
\* -1; the slice stops at the end of the row at the latest, and a negative
\* degree counts its stop from the end of the row
neighborCellId(iCell) ==
    LET w == Len(cellsOnCell[iCell])
        d == nEdgesOnCell[iCell]
        stop == IF d >= w THEN w ELSE IF d >= 0 THEN d
                ELSE IF d + w >= 0 THEN d + w ELSE 0
    IN  [k \in 1..stop |-> cellsOnCell[iCell][k] - 1]

\* variant: the neighbours set in the mask being built
MaskedInNew(ids) ==
    LET IsSet(id) == keepCellMaskNew[PyIndex(id, nCells)] # 0
    IN  SelectSeq(ids, IsSet)

\* the entries of ids whose cell is set in keepCellMask; numpy reads index
\* -1 as the last cell
MaskedIn(ids) ==
    LET IsSet(id) == keepCellMask[PyIndex(id, nCells)] # 0
    IN  SelectSeq(ids, IsSet)

\* variant: a zero distance is replaced by a positive one
DistancesNudged(iCell, ids) ==
    [k \in 1..Len(ids) |->
        LET j == PyIndex(ids[k], nCells)
            dx == RSub(Rat(x[iCell]), Rat(x[j]))
            dy == RSub(Rat(y[iCell]), Rat(y[j]))
        IN  IF x[iCell] = x[j] /\ y[iCell] = y[j] THEN Rat(1)
            ELSE Sqrt(RAdd(RMul(dx, dx), RMul(dy, dy)))]

\* np.sqrt((x_i-x_adj)**2+(y_i-y_adj)**2)
Distances(iCell, ids) ==
    [k \in 1..Len(ids) |->
        LET j == PyIndex(ids[k], nCells)
            dx == RSub(Rat(x[iCell]), Rat(x[j]))
            dy == RSub(Rat(y[iCell]), Rat(y[j]))
        IN  Sqrt(RAdd(RMul(dx, dx), RMul(dy, dy)))]

\* np.count_nonzero(ds)==len(ds)
AllNonzero(ds) == \A k \in 1..Len(ds) : ~RIsZero(ds[k])

\* field[nonzero_id]
VarAdjIn(field, ids) == [k \in 1..Len(ids) |-> field[PyIndex(ids[k], nCells)]]

\* 1.0/sum(1.0/ds)*sum(1.0/ds*var_adj)
InverseDistance(ds, var_adj) ==
    LET w == [k \in 1..Len(ds) |-> RDiv(Rat(1), ds[k])]
    IN  RMul(RDiv(Rat(1), RSum(w)),
             RSum([k \in 1..Len(ds) |-> RMul(w[k], var_adj[k])]))

\* saturating count of completed passes
PassCap == nCells + 2

-----------------------------------------------------------------------------
(* Extrapolation, lines 215-256 *)

\* variant: the special case keyed on another field
DoNotExtrapolateBeta(v) == v = "beta"

\* if options.var_name == 'thickness': print("Do not do extrapolation!")
DoNotExtrapolate(v) == v = "thickness"

SkipExtrapolation ==
    /\ pc = "extrapolation"
    /\ DoNotExtrapolate(var_name)
    /\ pc' = "smooth_while"
    /\ UNCHANGED <<config, dataset, usefulCellID_array, id_map_file, i,
                   keepCellMask, keepCellMaskNew, keepCellMaskOld, searchCells,
                   pos, pass_num, iter_num, written, err>>

StartExtrapolation ==
    /\ pc = "extrapolation"
    /\ ~DoNotExtrapolate(var_name)
    /\ pc' = "extrap_while"
    /\ UNCHANGED <<config, dataset, usefulCellID_array, id_map_file, i,
                   keepCellMask, keepCellMaskNew, keepCellMaskOld, searchCells,
                   pos, pass_num, iter_num, written, err>>

\* variant: the copy goes the other way, keepCellMaskNew = copy(keepCellMask)
ExtrapPassReversed ==
    /\ pc = "extrap_while"
    /\ CountNonzero(keepCellMask) # nCells
    /\ keepCellMaskNew' = keepCellMask
    /\ searchCells' = WhereZero(keepCellMask)
    /\ pos' = 0
    /\ pc' = "extrap_for"
    /\ UNCHANGED <<config, dataset, usefulCellID_array, id_map_file, i,
                   keepCellMask, keepCellMaskOld, pass_num, iter_num,
                   written, err>>

\* the while test holds: freeze the mask and list the cells to visit
ExtrapPass ==
    /\ pc = "extrap_while"
    /\ CountNonzero(keepCellMask) # nCells
    /\ keepCellMask' = keepCellMaskNew
    /\ searchCells' = WhereZero(keepCellMaskNew)
    /\ pos' = 0
    /\ pc' = "extrap_for"
    /\ UNCHANGED <<config, dataset, usefulCellID_array, id_map_file, i,
                   keepCellMaskNew, keepCellMaskOld, pass_num, iter_num,
                   written, err>>

\* the while test fails
ExtrapExit ==
    /\ pc = "extrap_while"
    /\ CountNonzero(keepCellMask) = nCells
    /\ pc' = "smooth_while"
    /\ UNCHANGED <<config, dataset, usefulCellID_array, id_map_file, i,
                   keepCellMask, keepCellMaskNew, keepCellMaskOld, searchCells,
                   pos, pass_num, iter_num, written, err>>

\* keepCellMaskNew[iCell] = 1
MarkActive(mask, iCell) == [mask EXCEPT ![iCell] = 1]

\* the value lines 237-249 compute for iCell when the field holds `field`
ExtrapValue(field, iCell) ==
    LET nonzero_id == MaskedIn(neighborCellId(iCell))
        ds == Distances(iCell, nonzero_id)
        var_adj == VarAdjIn(field, nonzero_id)
    IN  CASE extrapolation = "idw" -> InverseDistance(ds, var_adj)
          [] extrapolation = "min" -> RMin(var_adj)

\* the stores of lines 246, 249 and 253 on the field and the next mask
ExtrapStore(st, iCell) ==
    [st EXCEPT !.field = [st.field EXCEPT ![iCell] = ExtrapValue(st.field, iCell)],
               !.mask = MarkActive(st.mask, iCell)]

\* the visit of cell c finds a neighbour set in the frozen mask
ExtrapFinds(c) == Len(MaskedIn(neighborCellId(c))) > 0

\* the body of the for loop for one cell, lines 225-253, on the field, the
\* next mask and the way the loop was left ("none": it goes on)
ExtrapVisit(st, iCell) ==
    LET nonzero_id == MaskedIn(neighborCellId(iCell))
        ds == Distances(iCell, nonzero_id)
    IN  IF st.err # "none" THEN st
        ELSE IF ~InBounds(neighborCellId(iCell), nCells)
        THEN [st EXCEPT !.err = "IndexError:227"]
        ELSE IF ~ExtrapFinds(iCell) THEN st
        ELSE IF ~AllNonzero(ds) THEN [st EXCEPT !.err = "AssertionError:242"]
        ELSE IF extrapolation \notin {"idw", "min"}
        THEN [st EXCEPT !.err = "SystemExit:251"]
        ELSE ExtrapStore(st, iCell)

\* the for loop over the cells of `order`, in that order, starting from st
RECURSIVE ExtrapOver(_, _)
ExtrapOver(order, st) ==
    IF order = <<>> THEN st
    ELSE ExtrapOver(Tail(order), ExtrapVisit(st, Head(order)))

\* one turn of the for loop
ExtrapCell ==
    /\ pc = "extrap_for"
    /\ pos < Len(searchCells)
    /\ \E iCell \in {searchCells[pos + 1]} :
       \E st \in {ExtrapVisit([field |-> dataset[var_name],
                                mask |-> keepCellMaskNew, err |-> "none"], iCell)} :
           IF st.err # "none"
           THEN /\ Abort(st.err)
                /\ UNCHANGED <<dataset, keepCellMaskNew, written, pos>>
           ELSE /\ dataset' = [dataset EXCEPT ![var_name] = st.field]
                /\ keepCellMaskNew' = st.mask
                /\ written' = IF ExtrapFinds(iCell)
                               THEN [written EXCEPT !.extrapolation = @ \cup {iCell}]
                               ELSE written
                /\ pos' = pos + 1
                /\ UNCHANGED <<pc, err>>
    /\ UNCHANGED <<config, usefulCellID_array, id_map_file, i, keepCellMask,
                   keepCellMaskOld, searchCells, pass_num, iter_num>>

\* the for loop is over: print the cells left, back to the while test
ExtrapPassEnd ==
    /\ pc = "extrap_for"
    /\ pos = Len(searchCells)
    /\ pass_num' = IF pass_num < PassCap THEN pass_num + 1 ELSE pass_num
    /\ pc' = "extrap_while"
    /\ UNCHANGED <<config, dataset, usefulCellID_array, id_map_file, i,
                   keepCellMask, keepCellMaskNew, keepCellMaskOld, searchCells,
                   pos, iter_num, written, err>>

-----------------------------------------------------------------------------
(* Smoothing, lines 260-301 *)

\* variant: <= for <
SmoothMoreLoose(n) == n <= smooth_iter_num

\* while iter_num < int(options.smooth_iter_num)
SmoothMore(n) == n < smooth_iter_num

\* variant: the cells masked out now, not originally
SearchCurrentMask == WhereZero(keepCellMask)

\* searchCells = np.where(keepCellMaskOld==0)[0]
SmoothSearchCells == WhereZero(keepCellMaskOld)

SmoothIter ==
    /\ pc = "smooth_while"
    /\ SmoothMore(iter_num)
    /\ searchCells' = SmoothSearchCells
    /\ pos' = 0
    /\ written' = [written EXCEPT !.smoothing = {}]
    /\ pc' = "smooth_for"
    /\ UNCHANGED <<config, dataset, usefulCellID_array, id_map_file, i,
                   keepCellMask, keepCellMaskNew, keepCellMaskOld, pass_num,
                   iter_num, err>>

\* neighborCellId[np.nonzero(neighborCellId+1)]
RealNeighbors(ids) ==
    LET IsReal(id) == id + 1 # 0
    IN  SelectSeq(ids, IsReal)

\* the value lines 279-290 compute for iCell when the field holds `field`
SmoothValue(field, iCell) ==
    LET nonzero_id == MaskedIn(RealNeighbors(neighborCellId(iCell)))
        ds == Distances(iCell, nonzero_id)
        var_adj == VarAdjIn(field, nonzero_id)
    IN  CASE var_name = "beta" -> min(var_adj)
          [] var_name = "stiffnessFactor" -> InverseDistance(ds, var_adj)

\* line 292 on the field
SmoothStore(st, iCell) ==
    [st EXCEPT !.field = [st.field EXCEPT ![iCell] = SmoothValue(st.field, iCell)]]

\* the body of the for loop for one cell, lines 266-292, on the field and
\* the way the loop was left ("none": it goes on)
SmoothVisit(st, iCell) ==
    LET cell_nonzero_id == RealNeighbors(neighborCellId(iCell))
        nonzero_id == MaskedIn(cell_nonzero_id)
        nonzero_num == Len(nonzero_id)
        ds == Distances(iCell, nonzero_id)
    IN  IF st.err # "none" THEN st
        ELSE IF ~InBounds(cell_nonzero_id, nCells)
        THEN [st EXCEPT !.err = "IndexError:270"]
        ELSE IF ~(nonzero_num > 0) THEN [st EXCEPT !.err = "AssertionError:277"]
        ELSE IF ~AllNonzero(ds) THEN [st EXCEPT !.err = "AssertionError:284"]
        ELSE IF var_name \notin {"beta", "stiffnessFactor"}
        THEN [st EXCEPT !.err = "SystemExit:291"]
        ELSE SmoothStore(st, iCell)

\* the for loop over the cells of `order`, in that order, starting from st
RECURSIVE SmoothOver(_, _)
SmoothOver(order, st) ==
    IF order = <<>> THEN st
    ELSE SmoothOver(Tail(order), SmoothVisit(st, Head(order)))

\* one turn of the for loop
SmoothCell ==
    /\ pc = "smooth_for"
    /\ pos < Len(searchCells)
    /\ \E iCell \in {searchCells[pos + 1]} :
       \E st \in {SmoothVisit([field |-> dataset[var_name], err |-> "none"], iCell)} :
           IF st.err # "none"
           THEN /\ Abort(st.err)
                /\ UNCHANGED <<dataset, written, pos>>
           ELSE /\ dataset' = [dataset EXCEPT ![var_name] = st.field]
                /\ written' = [written EXCEPT !.smoothing = @ \cup {iCell}]
                /\ pos' = pos + 1
                /\ UNCHANGED <<pc, err>>
    /\ UNCHANGED <<config, usefulCellID_array, id_map_file, i, keepCellMask,
                   keepCellMaskNew, keepCellMaskOld, searchCells, pass_num,
                   iter_num>>

\* the for loop is over: iter_num = iter_num + 1
SmoothIterEnd ==
    /\ pc = "smooth_for"
    /\ pos = Len(searchCells)
    /\ iter_num' = iter_num + 1
    /\ pc' = "smooth_while"
    /\ UNCHANGED <<config, dataset, usefulCellID_array, id_map_file, i,
                   keepCellMask, keepCellMaskNew, keepCellMaskOld, searchCells,
                   pos, pass_num, written, err>>

\* the while test fails: "Extrapolation and smoothing finished!"
Finish ==
    /\ pc = "smooth_while"
    /\ ~SmoothMore(iter_num)
    /\ pc' = "done"
    /\ UNCHANGED <<config, dataset, usefulCellID_array, id_map_file, i,
                   keepCellMask, keepCellMaskNew, keepCellMaskOld, searchCells,
                   pos, pass_num, iter_num, written, err>>

-----------------------------------------------------------------------------

Next ==
    \/ StartCoord
    \/ CoordMatch
    \/ SaveIdMap
    \/ LoadIdFile
    \/ UnsupportedMethod
    \/ Transplant
    \/ BuildMask
    \/ SkipExtrapolation
    \/ StartExtrapolation
    \/ ExtrapPass
    \/ ExtrapExit
    \/ ExtrapCell
    \/ ExtrapPassEnd
    \/ SmoothIter
    \/ SmoothCell
    \/ SmoothIterEnd
    \/ Finish

Spec == Init /\ [][Next]_vars

-----------------------------------------------------------------------------
(* The source ordering and the layer loop, lines 92-181, for layered       *)
(* fields.  This second specification starts before the ordering is        *)
(* looked at and ends when the layer loop is over; a layered field is an   *)
(* array of cells, each an array of layers.                                *)

\* a[::step] for a step other than 0: every step-th element from the
\* first one, or from the last one backwards under a negative step
Strided(a, step) ==
    IF step > 0
    THEN [k \in 0..(((ALen(a) + step - 1) \div step) - 1) |-> a[k * step]]
    ELSE [k \in 0..(((ALen(a) - step - 1) \div (-step)) - 1) |->
            a[ALen(a) - 1 + k * step]]

\* a[0:n] : a negative n counts from the end
Prefix(a, n) ==
    LET stop == IF n >= ALen(a) THEN ALen(a)
                ELSE IF n >= 0 THEN n
                ELSE IF n + ALen(a) >= 0 THEN n + ALen(a)
                ELSE 0
    IN  [k \in 0..(stop - 1) |-> a[k]]

\* nVert_max, lines 139-142
nVert_max == IF Len(shape) = 3 THEN shape[3] ELSE 1

\* lines 150-153; the vertical dimension of the fields explored is
\* nVertLevels, so the test for 'nVertLayers' fails
nVert_albany(nv) == nVert_max - nv - 1

\* ordering == 1.0 : column-wise, stride is the number of layers; a slice
\* step of 0 raises ValueError at the first slice
SliceColumnWise ==
    /\ pc = "ordering"
    /\ ordering = 1
    /\ IF stride = 0
       THEN /\ Abort("ValueError:98")
            /\ UNCHANGED <<data_exo_layer, x_exo_layer, y_exo_layer>>
       ELSE /\ data_exo_layer' = Strided(data_exo, stride)
            /\ x_exo_layer' = Strided(x_exo, stride)
            /\ y_exo_layer' = Strided(y_exo, stride)
            /\ pc' = "method"
            /\ UNCHANGED err
    /\ UNCHANGED <<ordering, stride, x_exo, y_exo, data_exo, shape, nVert,
                   var_name, conversion_method, mask_scheme, extrapolation,
                   smooth_iter_num, nCells, x, y, cellsOnCell, nEdgesOnCell,
                   id_file, dataset0, dataset, usefulCellID_array, id_map_file,
                   i, keepCellMask, keepCellMaskNew, keepCellMaskOld,
                   searchCells, pos, pass_num, iter_num, written>>

\* ordering == 0.0 : layer-wise, stride is the number of nodes of a layer;
\* layer_num = len(data_exo)//node_num after the slices divides by it
SliceLayerWise ==
    /\ pc = "ordering"
    /\ ordering = 0
    /\ data_exo_layer' = Prefix(data_exo, stride + 1)
    /\ x_exo_layer' = Prefix(x_exo, stride + 1)
    /\ y_exo_layer' = Prefix(y_exo, stride + 1)
    /\ IF stride = 0
       THEN Abort("ZeroDivisionError:107")
       ELSE /\ pc' = "method"
            /\ UNCHANGED err
    /\ UNCHANGED <<ordering, stride, x_exo, y_exo, data_exo, shape, nVert,
                   var_name, conversion_method, mask_scheme, extrapolation,
                   smooth_iter_num, nCells, x, y, cellsOnCell, nEdgesOnCell,
                   id_file, dataset0, dataset, usefulCellID_array, id_map_file,
                   i, keepCellMask, keepCellMaskNew, keepCellMaskOld,
                   searchCells, pos, pass_num, iter_num, written>>

\* sys.exit("Invalid ordering in Exodus file. ...")
InvalidOrdering ==
    /\ pc = "ordering"
    /\ ordering \notin {0, 1}
    /\ Abort("SystemExit:109")
    /\ UNCHANGED <<config, dataset, usefulCellID_array, id_map_file, i,
                   keepCellMask, keepCellMaskNew, keepCellMaskOld, searchCells,
                   pos, pass_num, iter_num, written>>

\* a[ids, nv] = vals on a layered field
SetLayer(a, ids, nv, vals) ==
    [c \in DOMAIN a |->
        LET hits == {k \in DOMAIN ids : PyIndex(ids[k], ALen(a)) = c}
        IN  IF hits = {} THEN a[c]
            ELSE LET last == CHOOSE k \in hits : \A j \in hits : j <= k
                 IN  [a[c] EXCEPT ![nv] =
                        IF ALen(vals) = 1 THEN vals[0] ELSE vals[last]]]

\* the dataset after the pass of the layer loop for layer nv, lines 163-179
TransplantedAt(ds, nv) ==
    IF var_name \notin {"beta", "thickness"} /\ nVert_max > 1
    THEN [ds EXCEPT ![var_name] = SetLayer(ds[var_name], CellIndex, nv, data_exo_layer)]
    ELSE Transplanted(ds)

\* one pass of for nVert in np.arange(0, nVert_max)
TransplantLayer ==
    /\ pc = "transplant"
    /\ nVert < nVert_max
    /\ IF ~ShapeOk(CellIndex, data_exo_layer)
       THEN /\ Abort("ValueError:164-179")
            /\ UNCHANGED <<dataset, written, nVert>>
       ELSE IF ~InBounds(CellIndex, nCells)
       THEN /\ Abort("IndexError:164-179")
            /\ UNCHANGED <<dataset, written, nVert>>
       ELSE /\ dataset' = TransplantedAt(dataset, nVert)
            /\ written' = [written EXCEPT !.transplant = CellsOf(CellIndex)]
            /\ nVert' = nVert + 1
            /\ UNCHANGED <<pc, err>>
    /\ UNCHANGED <<ordering, stride, x_exo, y_exo, data_exo, shape,
                   var_name, conversion_method, mask_scheme, extrapolation,
                   smooth_iter_num, nCells, x, y, cellsOnCell, nEdgesOnCell,
                   x_exo_layer, y_exo_layer, data_exo_layer, id_file, dataset0,
                   usefulCellID_array, id_map_file, i, keepCellMask,
                   keepCellMaskNew, keepCellMaskOld, searchCells, pos, pass_num,
                   iter_num>>

\* the loop is over: "Successful in converting data from Exodus to MPAS!"
TransplantEnd ==
    /\ pc = "transplant"
    /\ nVert = nVert_max
    /\ pc' = "converted"
    /\ UNCHANGED <<config, dataset, usefulCellID_array, id_map_file, i,
                   keepCellMask, keepCellMaskNew, keepCellMaskOld, searchCells,
                   pos, pass_num, iter_num, written, err>>

\* the value of node j in layer l of the source
SourceValue(j, l) == Rat(10 * l + j + 1)

\* the <<node, layer>> pairs of a source of n nodes in `layers` layers, as
\* the file lists them: node after node with the layers of a node together
\* (ordering 1), or layer after layer
SourceNodes(n, layers, ord) ==
    [k \in 0..(n * layers - 1) |->
        IF ord = 1 THEN <<k \div layers, k % layers>>
        ELSE <<k % n, k \div n>>]

\* the values of the global variable 'stride' explored: the one that goes
\* with the ordering (the layers of a column, or the nodes of a layer), and
\* for a source of two layers 0 and -1 as well
Strides(n, layers, ord) ==
    {IF ord = 1 THEN layers ELSE n} \cup (IF layers = 2 THEN {0, -1} ELSE {})

\* the layered runs: a field of `target` layers (1: a 2-D field) on the
\* three-cell line, a source of n nodes in `layers` layers, an id file
LayerRuns ==
    UNION {
        {[var_name |-> IF target = 1 THEN "surfaceTemperature" ELSE "temperature",
          target |-> target, n |-> q[1], layers |-> q[2], ordering |-> q[3],
          stride |-> st, id_file |-> IdFileOf(q[1], ids)] :
            target \in 1..MaxLayers, st \in Strides(q[1], q[2], q[3]),
            ids \in UNION {[1..k -> 1..Line3.nCells] : k \in 1..(MaxSamples + 1)}} :
        q \in (1..MaxSamples) \X (1..MaxLayers) \X {0, 1, 2}}

\* the layered field in the target file before the run
LayeredFieldInit(m, target) ==
    [c \in Cells(m) |->
        IF target = 1 THEN Rat(c + 2) ELSE [l \in 0..(target - 1) |-> Rat(c + 2)]]

LayerInit ==
    \E r \in LayerRuns :
        /\ ordering = r.ordering
        /\ stride = r.stride
        /\ x_exo = [k \in 0..(r.n * r.layers - 1) |->
                        FromKm(Line3.x[SourceNodes(r.n, r.layers, r.ordering)[k][1]])]
        /\ y_exo = [k \in 0..(r.n * r.layers - 1) |->
                        FromKm(Line3.y[SourceNodes(r.n, r.layers, r.ordering)[k][1]])]
        /\ data_exo = [k \in 0..(r.n * r.layers - 1) |->
                        SourceValue(SourceNodes(r.n, r.layers, r.ordering)[k][1],
                                    SourceNodes(r.n, r.layers, r.ordering)[k][2])]
        /\ shape = IF r.target = 1 THEN <<1, Line3.nCells>>
                   ELSE <<1, Line3.nCells, r.target>>
        /\ nVert = 0
        /\ var_name = r.var_name
        /\ conversion_method = "id"
        /\ mask_scheme = "all"
        /\ extrapolation = "min"
        /\ smooth_iter_num = 0
        /\ nCells = Line3.nCells
        /\ x = Line3.x
        /\ y = Line3.y
        /\ cellsOnCell = Line3.cellsOnCell
        /\ nEdgesOnCell = Line3.nEdgesOnCell
        /\ x_exo_layer = <<>>
        /\ y_exo_layer = <<>>
        /\ data_exo_layer = <<>>
        /\ id_file = r.id_file
        /\ dataset0 = [v \in {r.var_name} |-> LayeredFieldInit(Line3, r.target)]
        /\ dataset = [v \in {r.var_name} |-> LayeredFieldInit(Line3, r.target)]
        /\ usefulCellID_array = <<>>
        /\ id_map_file = <<>>
        /\ i = 0
        /\ keepCellMask = NoMask
        /\ keepCellMaskNew = NoMask
        /\ keepCellMaskOld = NoMask
        /\ searchCells = <<>>
        /\ pos = 0
        /\ pass_num = 0
        /\ iter_num = 0
        /\ written = [transplant |-> {}, extrapolation |-> {}, smoothing |-> {}]
        /\ pc = "ordering"
        /\ err = "none"

LayerNext ==
    \/ SliceColumnWise
    \/ SliceLayerWise
    \/ InvalidOrdering
    \/ LoadIdFile
    \/ TransplantLayer
    \/ TransplantEnd

LayerSpec == LayerInit /\ [][LayerNext]_vars

-----------------------------------------------------------------------------
(* Vocabulary of the properties *)

CellSet == 0..(nCells - 1)

MaskBuilt == keepCellMaskOld # NoMask

\* cells masked out by the mask builder
OriginallyInactive == {c \in DOMAIN keepCellMaskOld : keepCellMaskOld[c] = 0}

AllActive(mask) == mask # NoMask /\ \A c \in DOMAIN mask : mask[c] # 0

\* every neighbour slot within a cell's degree holds a cell id
ValidNeighborIds ==
    \A c \in CellSet : \A k \in 1..nEdgesOnCell[c] : cellsOnCell[c][k] \in 1..nCells

\* the cells listed by c, when every slot is valid
ListedBy(c) == {cellsOnCell[c][k] - 1 : k \in 1..nEdgesOnCell[c]}

RECURSIVE ReachableFrom(_)
ReachableFrom(S) ==
    LET T == S \cup UNION {ListedBy(c) : c \in S}
    IN  IF T = S THEN S ELSE ReachableFrom(T)

\* every cell reaches every cell along the neighbour lists
Connected == \A c \in CellSet : ReachableFrom({c}) = CellSet

ExtrapolationErrors == {"IndexError:227", "AssertionError:242", "SystemExit:251"}
SmoothingErrors ==
    {"IndexError:270", "AssertionError:277", "AssertionError:284", "SystemExit:291"}

\* the extrapolation loop has been left through its while test
ExtrapolationLeft ==
    \/ pc \in {"smooth_while", "smooth_for", "done"}
    \/ pc = "error" /\ err \in SmoothingErrors

\* the premises C1 states
C1_Premises ==
    /\ var_name # "thickness"
    /\ MaskBuilt
    /\ ValidNeighborIds
    /\ Connected
    /\ CountNonzero(keepCellMaskOld) > 0

\* the loop is not aborted, needs at most nCells passes, and leaves every
\* cell active
C1_Outcome ==
    /\ ~(pc = "error" /\ err \in ExtrapolationErrors)
    /\ pass_num <= nCells
    /\ ExtrapolationLeft => AllActive(keepCellMask)

\* C1: for a field other than thickness, on a connected mesh with valid
\* neighbour ids and an initially active cell, the extrapolation loop
\* terminates with every cell active.  (Fails: under the min rule, which
\* uses no distance, the assert of line 242 still aborts the loop at an
\* active neighbour that has the cell's own centroid.)
C1_AsStated == C1_Premises => C1_Outcome

\* C2: a pass that activates no cell while inactive cells remain is followed
\* by an error, not by another pass.  (Fails: the while loop starts the
\* next pass, for ever.)
C2_StuckPassReported ==
    [][(/\ pc = "extrap_while"
        /\ pass_num >= 1
        /\ keepCellMaskNew = keepCellMask
        /\ ~AllActive(keepCellMask)) => pc' = "error"]_vars

\* C3: after the thickness transplant, thickness + bedTopography at every
\* corresponded cell is what it was before the transplant.  (Fails: the old
\* thickness is read after the new one has been stored, so bedTopography
\* stays as it was.)
C3_SurfacePreserved ==
    (/\ var_name = "thickness"
     /\ "bedTopography" \in DOMAIN dataset
     /\ pc = "mask")
        => \A c \in written.transplant :
                RAdd(dataset["thickness"][c], dataset["bedTopography"][c])
                    = RAdd(dataset0["thickness"][c], dataset0["bedTopography"][c])

\* the cells a finished smoothing iteration rewrote are the originally
\* inactive ones
C4_Exactly ==
    (pc \in {"smooth_while", "done"} /\ iter_num >= 1)
        => written.smoothing = OriginallyInactive

\* no step after the mask was built changes an originally active cell
C4_Frame ==
    MaskBuilt =>
        \A c \in CellSet :
            keepCellMaskOld[c] # 0 => dataset'[var_name][c] = dataset[var_name][c]

\* C4: every smoothing iteration rewrites exactly the cells inactive in the
\* original mask, and neither extrapolation nor smoothing changes the value
\* of a cell active in the original mask.
C4_OriginalMask == [](C4_Exactly) /\ [][C4_Frame]_vars

\* two smoothing iterations ran after extrapolation made every cell active,
\* with originally active and originally inactive cells
C4_Witness ==
    /\ pc = "done"
    /\ iter_num = 2
    /\ AllActive(keepCellMask)
    /\ written.smoothing # {}
    /\ written.smoothing # CellSet

\* C5: for thickness the extrapolation loop is never entered: no pass runs,
\* no cell is written by it and the three masks stay as built.
C5_ThicknessNotExtrapolated ==
    var_name = "thickness" =>
        /\ pc \notin {"extrap_while", "extrap_for"}
        /\ pass_num = 0
        /\ written.extrapolation = {}
        /\ err \notin ExtrapolationErrors
        /\ MaskBuilt => /\ keepCellMask = keepCellMaskOld
                        /\ keepCellMaskNew = keepCellMaskOld

\* smoothing starts for thickness with inactive cells next to active ones
C5_Witness ==
    /\ var_name = "thickness"
    /\ pc = "smooth_while"
    /\ CountNonzero(keepCellMask) \notin {0, nCells}

\* with zero iterations no smoothing pass is running or has failed
C6_NoPass ==
    smooth_iter_num = 0 =>
        /\ pc # "smooth_for"
        /\ err \notin SmoothingErrors
        /\ written.smoothing = {}

\* with zero iterations the smoothing stage goes straight to the end
C6_Step ==
    (smooth_iter_num = 0 /\ pc = "smooth_while")
        => (pc' = "done" /\ dataset' = dataset /\ err' = "none")

\* C6: with zero requested iterations the smoothing stage changes no field
\* value and raises no error, whatever the field and the mask.
C6_ZeroIterations == [](C6_NoPass) /\ [][C6_Step]_vars

\* a run with zero iterations ends, for a field smoothing does not support
\* and with originally inactive cells
C6_Witness ==
    /\ pc = "done"
    /\ smooth_iter_num = 0
    /\ var_name = "surfaceTemperature"
    /\ OriginallyInactive # {}

\* C7: a run that asks for at least one smoothing iteration on a field other
\* than beta or stiffnessFactor never completes normally.  (Fails: the
\* check sits inside the loop over originally inactive cells, so a mask
\* with none skips it.)
C7_UnsupportedRejected ==
    (smooth_iter_num >= 1 /\ var_name \notin {"beta", "stiffnessFactor"})
        => pc # "done"

\* C8: under the id method, when the first value of the id file differs
\* from the number of source samples, no target value is written.  (Fails:
\* the first value is dropped without being compared.)
C8_CountChecked ==
    (/\ conversion_method = "id"
     /\ LoadTxt(id_file).flat[0] # node_num_layer)
        => written.transplant = {}

\* C9: the id map file written by coordinate matching holds the sample
\* count and then one id per sample, and the id method reads back from it
\* the mapping the coordinate run used.  (Fails: the map of a source
\* without samples is the single line 0, which loadtxt reads as a 0-d
\* array, and the slice of line 133 raises IndexError.)
C9_RoundTrip ==
    (conversion_method = "coord" /\ pc \notin {"method", "coord", "error"})
        => /\ Len(id_map_file) = node_num_layer + 1
           /\ ParseInt(id_map_file[1]) = node_num_layer
           /\ ReadIdFile(id_map_file) = [ids |-> usefulCellID_array, err |-> "none"]
           /\ \A k \in 0..(node_num_layer - 1) :
                /\ usefulCellID_array[k] \in 1..nCells
                /\ Close(x[usefulCellID_array[k] - 1], x_exo_layer[k])
                /\ Close(y[usefulCellID_array[k] - 1], y_exo_layer[k])

\* sample k matches no cell in both coordinates
NoCellMatches(k) ==
    ~\E c \in CellSet : Close(x[c], x_exo_layer[k]) /\ Close(y[c], y_exo_layer[k])

\* the search aborts at a sample without a match
C10_Step ==
    (pc = "coord" /\ i < node_num_layer /\ NoCellMatches(i))
        => (pc' = "error" /\ err' = "IndexError:125")

\* nothing was written when the search aborted
C10_Nothing ==
    err = "IndexError:125" =>
        /\ dataset = dataset0
        /\ written.transplant = {}
        /\ id_map_file = <<>>

\* C10: coordinate matching aborts at a sample that matches no cell in both
\* coordinates, before any target value is written.
C10_NoMatchAborts == [](C10_Nothing) /\ [][C10_Step]_vars

\* the second sample had no match after the first had one
C10_Witness ==
    /\ pc = "error"
    /\ err = "IndexError:125"
    /\ i = 1

\* cell c lists a cell that is set in the frozen mask and has c's centroid
ZeroDistanceNeighbor(c) ==
    \E k \in 1..nEdgesOnCell[c] :
        LET id == cellsOnCell[c][k]
        IN  /\ id # 0
            /\ keepCellMask[id - 1] # 0
            /\ x[id - 1] = x[c]
            /\ y[id - 1] = y[c]

\* the for loop of an inverse-distance stage is about to visit a cell
IdwVisit ==
    /\ pos < Len(searchCells)
    /\ \/ pc = "extrap_for" /\ extrapolation = "idw"
       \/ pc = "smooth_for" /\ var_name = "stiffnessFactor"

\* the visit of a cell with such a neighbour aborts the run and writes nothing
C11_Step ==
    (IdwVisit /\ ZeroDistanceNeighbor(searchCells[pos + 1]))
        => /\ pc' = "error"
           /\ err' \in {"AssertionError:242", "AssertionError:284"}
           /\ dataset' = dataset
           /\ keepCellMaskNew' = keepCellMaskNew

\* a value stored by an inverse-distance stage has no such neighbour
C11_Stored ==
    IdwVisit =>
        \A c \in CellSet :
            dataset'[var_name][c] # dataset[var_name][c] => ~ZeroDistanceNeighbor(c)

\* C11: under the inverse-distance rule, the visit of a cell that has an
\* active neighbour at zero centroid distance fails the run at that cell
\* without writing a value, and no stored value comes from such a cell.
C11_ZeroDistanceFails == [][C11_Step /\ C11_Stored]_vars

\* inverse-distance extrapolation filled cells, then inverse-distance
\* smoothing met a neighbour at zero distance and stopped
C11_Witness ==
    /\ pc = "error"
    /\ err = "AssertionError:284"
    /\ var_name = "stiffnessFactor"
    /\ extrapolation = "idw"
    /\ written.extrapolation # {}
    /\ ZeroDistanceNeighbor(searchCells[pos + 1])

\* the five-cell line at unit spacing under the min rule, its end cells
\* active with the values 10 and 20
LineScenario ==
    /\ nCells = 5
    /\ x = Line5.x /\ y = Line5.y
    /\ cellsOnCell = Line5.cellsOnCell /\ nEdgesOnCell = Line5.nEdgesOnCell
    /\ var_name # "thickness"
    /\ extrapolation = "min"
    /\ keepCellMaskOld = Arr(<<1, 0, 0, 0, 1>>)
    /\ dataset[var_name][0] = Rat(10)
    /\ dataset[var_name][4] = Rat(20)

\* k passes of the extrapolation loop are complete
AfterPass(k) == pc = "extrap_while" /\ pass_num = k

\* what the scenario gives after its second pass
C12_SecondPass ==
    AfterPass(2) =>
        /\ AllActive(keepCellMaskNew)
        /\ dataset[var_name][2] = Rat(10)

\* C12 as stated: after pass 1 the mask is [T,T,F,F,T] with values[1] = 10
\* and values[3] = 20; after pass 2 the mask is all true and values[2] = 10.
\* (Fails: cell 3 is filled in pass 1 and is marked active with cell 1.)
C12_AsStated ==
    LineScenario =>
        /\ AfterPass(1) =>
                /\ keepCellMaskNew = Arr(<<1, 1, 0, 0, 1>>)
                /\ dataset[var_name][1] = Rat(10)
                /\ dataset[var_name][3] = Rat(20)
        /\ C12_SecondPass

\* C12, amended: after pass 1 the mask is [T,T,F,T,T] with values[1] = 10
\* and values[3] = 20; after pass 2 the mask is all true and values[2] = 10.
C12_LineScenario ==
    LineScenario =>
        /\ AfterPass(1) =>
                /\ keepCellMaskNew = Arr(<<1, 1, 0, 1, 1>>)
                /\ dataset[var_name][1] = Rat(10)
                /\ dataset[var_name][3] = Rat(20)
        /\ C12_SecondPass

\* the second pass of the scenario is complete, the middle cell having
\* held another value before
C12_Witness ==
    /\ LineScenario
    /\ AfterPass(2)
    /\ dataset0[var_name][2] = Rat(99)
    /\ written.extrapolation = {1, 2, 3}

\* the cells c really lists (within its degree, no-neighbour entries left
\* out) that are set in the frozen mask
ActiveNeighbors(c) ==
    {cellsOnCell[c][k] - 1 : k \in {j \in 1..nEdgesOnCell[c] : cellsOnCell[c][j] # 0}}
        \cap {j \in CellSet : keepCellMask[j] # 0}

\* the extrapolation loop visits a cell and writes it
ExtrapWrites(c) ==
    /\ pc = "extrap_for"
    /\ pos < Len(searchCells)
    /\ c = searchCells[pos + 1]
    /\ written'.extrapolation # written.extrapolation

\* C13: under the min rule, the value extrapolation writes to a cell is the
\* minimum of the values of that cell's neighbours active in the frozen mask
\* (so it lies between their minimum and maximum).  (Fails: a no-neighbour
\* entry within the degree is read as the last cell, whose value is written
\* to a cell it is no neighbour of; see C18.)
C13_MinOfNeighbors ==
    [][\A c \in CellSet :
        (extrapolation = "min" /\ ExtrapWrites(c)) =>
            LET vals == {dataset[var_name][j] : j \in ActiveNeighbors(c)}
            IN  /\ dataset'[var_name][c] \in vals
                /\ \A v \in vals : ~RLess(v, dataset'[var_name][c])]_vars

\* the cells set in a mask
ActiveIn(mask) == {c \in DOMAIN mask : mask[c] # 0}

\* the initially active cells and the cells from which one of them is
\* reached in at most k steps along the cells' own neighbour lists
RECURSIVE Ring(_)
Ring(k) ==
    IF k = 0 THEN ActiveIn(keepCellMaskOld)
    ELSE LET R == Ring(k - 1)
         IN  R \cup {c \in CellSet : ListedBy(c) \cap R # {}}

\* C14: on a mesh whose neighbour slots within each degree are valid cell
\* ids, after the k-th pass the next mask is the set of initially active
\* cells together with the cells that reach one of them in at most k steps
\* along their own neighbour lists, and the pass that follows runs on that
\* set frozen.
C14_OneRingPerPass ==
    (ValidNeighborIds /\ var_name # "thickness") =>
        /\ pc = "extrap_while" => ActiveIn(keepCellMaskNew) = Ring(pass_num)
        /\ pc = "extrap_for" => ActiveIn(keepCellMask) = Ring(pass_num)

\* two passes are complete, each having added a ring of cells
C14_Witness ==
    /\ ValidNeighborIds
    /\ pc = "extrap_while"
    /\ pass_num = 2
    /\ Ring(0) # {}
    /\ Ring(1) # Ring(0)
    /\ Ring(2) # Ring(1)
    /\ ActiveIn(keepCellMaskNew) = Ring(2)

\* the visit of cell c stores a value: it finds a neighbour, every distance
\* is nonzero and the rule is known
ExtrapFills(c) ==
    /\ ExtrapFinds(c)
    /\ AllNonzero(Distances(c, MaskedIn(neighborCellId(c))))
    /\ extrapolation \in {"idw", "min"}

\* the orders in which the cells of a sequence can be visited
Orders(cells) ==
    {p \in [1..Len(cells) -> {cells[k] : k \in 1..Len(cells)}] :
        \A a, b \in 1..Len(cells) : a # b => p[a] # p[b]}

\* the field with the cells outside the frozen mask set to q
OutsideSetTo(q) ==
    [c \in CellSet |-> IF keepCellMask[c] # 0 THEN dataset[var_name][c] ELSE Rat(q)]

\* the value computed for the cell being visited is the same whatever the
\* cells outside the frozen mask hold
C15_OnlyFrozen ==
    (pc = "extrap_for" /\ pos < Len(searchCells) /\ ExtrapFills(searchCells[pos + 1]))
        => \A q \in {0, 7} :
                ExtrapValue(dataset[var_name], searchCells[pos + 1])
                    = ExtrapValue(OutsideSetTo(q), searchCells[pos + 1])

\* the cells yet to visit in this pass give the same field and next mask in
\* every order
C15_AnyOrder ==
    (pc = "extrap_for" /\ \A k \in 1..Len(searchCells) :
                              ExtrapFinds(searchCells[k]) => ExtrapFills(searchCells[k]))
        => LET rest == SubSeq(searchCells, pos + 1, Len(searchCells))
               st == [field |-> dataset[var_name], mask |-> keepCellMaskNew,
                      err |-> "none"]
           IN  \A p \in Orders(rest) : ExtrapOver(p, st) = ExtrapOver(rest, st)

\* a pass changes no value of a cell that is set in the frozen mask
C15_FrozenKept ==
    pc = "extrap_for" =>
        \A c \in CellSet :
            keepCellMask[c] # 0 => dataset'[var_name][c] = dataset[var_name][c]

\* C15: within one extrapolation pass the value written to a cell is
\* computed only from the values of cells active in the frozen mask, never
\* from a value written earlier in the pass, so the field and the mask after
\* the pass are the same for every order of visiting the cells.
C15_PassOrderFree == [](C15_OnlyFrozen /\ C15_AnyOrder) /\ [][C15_FrozenKept]_vars

\* a pass wrote two neighbouring cells with different values, the later one
\* listing the earlier one
C15_Witness ==
    /\ pc = "extrap_while"
    /\ pass_num = 1
    /\ ValidNeighborIds
    /\ \E c, j \in written.extrapolation :
            /\ j < c
            /\ j \in ListedBy(c)
            /\ dataset[var_name][j] # dataset[var_name][c]

\* the visit of cell c by the smoothing loop stores a value: it finds an
\* active real neighbour, every distance is nonzero and the field is one
\* smoothing supports
SmoothFills(c) ==
    LET nonzero_id == MaskedIn(RealNeighbors(neighborCellId(c)))
    IN  /\ Len(nonzero_id) > 0
        /\ AllNonzero(Distances(c, nonzero_id))
        /\ var_name \in {"beta", "stiffnessFactor"}

\* C16: within one smoothing iteration each cell's new value is computed
\* from the values at the end of the previous iteration, so the field after
\* the iteration is the same for every order of visiting the cells.
\* (Fails: line 292 stores each value in place and later cells of the same
\* iteration read it.)
C16_IterationOrderFree ==
    (/\ pc = "smooth_for"
     /\ pos = 0
     /\ \A k \in 1..Len(searchCells) : SmoothFills(searchCells[k]))
        => \A p \in Orders(searchCells) :
                SmoothOver(p, [field |-> dataset[var_name], err |-> "none"])
                    = SmoothOver(searchCells, [field |-> dataset[var_name], err |-> "none"])

\* C17: for a field other than thickness, once extrapolation has ended, the
\* smoothing check that a cell has an active neighbour never fails, also on
\* meshes with a no-neighbour entry within a cell's degree.  (Fails: a cell
\* whose entries within the degree are all no-neighbour entries is filled
\* by extrapolation through the last cell, see C18, and smoothing, which
\* drops those entries, finds no neighbour.)
C17_SmoothFindsNeighbor ==
    (var_name # "thickness" /\ ExtrapolationLeft)
        => ~(pc = "error" /\ err = "AssertionError:277")

\* the cells whose mask bit the visit of cell c reads
CellsRead(c) ==
    {PyIndex(neighborCellId(c)[k], nCells) : k \in DOMAIN neighborCellId(c)}

\* the cells whose id appears in c's neighbour list within its degree
RealNeighborCells(c) ==
    {cellsOnCell[c][k] - 1 : k \in {j \in 1..nEdgesOnCell[c] : cellsOnCell[c][j] # 0}}

\* C18: during extrapolation a no-neighbour entry (id 0) within a cell's
\* degree is never treated as a neighbour: every mask bit and field value
\* read for a cell belongs to a cell whose id appears in its neighbour list.
\* (Fails: the entry becomes index -1, which reads the last cell.)
C18_SentinelSkipped ==
    (pc = "extrap_for" /\ pos < Len(searchCells))
        => CellsRead(searchCells[pos + 1]) \subseteq RealNeighborCells(searchCells[pos + 1])

\* the frozen mask lies within the next mask, and the original mask is the
\* one the mask builder gives
C20_Masks ==
    MaskBuilt =>
        /\ ActiveIn(keepCellMask) \subseteq ActiveIn(keepCellMaskNew)
        /\ keepCellMaskOld = MaskOf(mask_scheme)

\* no step takes a cell out of the next mask or changes the original mask
C20_Step ==
    MaskBuilt =>
        /\ ActiveIn(keepCellMaskNew) \subseteq ActiveIn(keepCellMaskNew')
        /\ keepCellMaskOld' = keepCellMaskOld

\* C20: the frozen mask of a pass is always a subset of the next mask, the
\* next mask only gains cells, and the original mask kept for smoothing
\* stays equal to the mask the mask builder produced until the run ends.
C20_SnapshotDiscipline == [](C20_Masks) /\ [][C20_Step]_vars

\* a run ended after two passes that grew the next mask and one smoothing
\* iteration
C20_Witness ==
    /\ pc = "done"
    /\ pass_num >= 2
    /\ iter_num >= 1
    /\ ActiveIn(keepCellMaskOld) # {}
    /\ ActiveIn(keepCellMaskOld) # ActiveIn(keepCellMaskNew)
    /\ keepCellMask = keepCellMaskNew

\* the number of layers of the source, lines 95 and 104
layer_num == IF ordering = 1 THEN stride ELSE ALen(data_exo) \div stride

\* the number of nodes of one source layer
node_num == IF ordering = 1 THEN ALen(data_exo) \div stride ELSE stride

\* the source value of node j in layer l, by the ordering of the file
SourceAt(j, l) ==
    data_exo[IF ordering = 1 THEN j * layer_num + l ELSE l * node_num + j]

\* sample k is the last one mapped to its cell
LastOnItsCell(k) ==
    \A j \in DOMAIN CellIndex : CellIndex[j] = CellIndex[k] => j <= k

\* C19: for a layered field (more than one vertical layer) the transplant
\* gives target layer nVert of every corresponded cell the source layer of
\* the opposite order, nVert_max - nVert - 1, not one source slice to every
\* layer.  (Fails: the reversed index is computed and never used; every
\* pass of the layer loop stores the same slice.)
C19_LayersReversed ==
    (pc = "converted" /\ nVert_max > 1 /\ layer_num = nVert_max) =>
        \A k \in DOMAIN CellIndex :
            (k < node_num /\ LastOnItsCell(k)) =>
                \A nv \in 0..(nVert_max - 1) :
                    dataset[var_name][CellIndex[k]][nv] = SourceAt(k, nVert_albany(nv))

====
